---------------------------- MODULE Spec2Model ----------------------------
(***************************************************************************)
(* Critical-position selection engine of chess-in-one-ai-coach.            *)
(*                                                                         *)
(* The module holds one state machine per component of                     *)
(* backend/api/ai/position_analyzer.py:                                    *)
(*   SpecSelector  PositionAnalyzer.rank_positions / select_key_positions  *)
(*   SpecScore     PositionAnalyzer._calculate_criticality_score and        *)
(*                 PositionAnalyzer._determine_reason_code                  *)
(*   SpecAnalyze   PositionAnalyzer.analyze_position on a board, called     *)
(*                 directly or by AIOrchestrator._run_analyzer              *)
(*   SpecSample    AIOrchestrator._run_analyzer up to the sampled positions  *)
(*   SpecRun       AIOrchestrator._run_analyzer of a short game, with the    *)
(*                 engine calls of ChessEngineProvider.analyze_position      *)
(*   SpecPipeline  AIOrchestrator.run_pipeline: validate_analyzer_output and *)
(*                 the persistence of the key positions                      *)
(*   SpecEngine    ChessEngineProvider.analyze_position                      *)
(*   SpecSubmit    SubmissionService.submit_game                             *)
(*   SpecAnswer    answer_question of questions/router.py                    *)
(*   SpecLock      AIOrchestrator.run_pipeline under LockManager.with_lock   *)
(*   SpecLife      the states of one game under submit requests, pipeline    *)
(*                 runs and answers; SpecLifeFair adds that every run and     *)
(*                 every answer is eventually made                            *)
(* Every component has its own variables; a specification leaves the       *)
(* variables of the other components at their idle values.                 *)
(***************************************************************************)
EXTENDS Integers, Sequences, FiniteSets, TLC

VARIABLES
    analyses,        \* select_key_positions: the input list (PositionAnalysis)
    min_positions,   \* select_key_positions: min_positions argument
    max_positions,   \* select_key_positions: max_positions argument
    ranked,          \* rank_positions result, as indices into analyses
    first_pass,      \* `selected` after the greedy loop (lines 519-531)
    selected,        \* the returned list, as indices into analyses
    sel_pc           \* "call" before the call, "done" after the return

selVars == <<analyses, min_positions, max_positions, ranked, first_pass,
             selected, sel_pc>>

VARIABLES
    eval_score,          \* engine score of the position, in tenths of a pawn
    previous_eval,       \* score of the previous analysed position, or NoEval
    material_balance,    \* in tenths of a pawn
    tactical_patterns,   \* the deduplicated pattern tags
    king_safety_score,   \* 0..100
    move_quality_score,  \* in tenths: 0, 5, 6 or 10
    threats,             \* the engine's threat descriptors
    criticality_score,   \* result, in 1/70 of a point
    reason_code,         \* result
    score_pc             \* "call" before the two calls, "done" after

scoreVars == <<eval_score, previous_eval, material_balance, tactical_patterns,
               king_safety_score, move_quality_score, threats,
               criticality_score, reason_code, score_pc>>

VARIABLES
    game,               \* the Game row: player_color
    caller,             \* who calls analyze_position: "direct", or the branch of
                        \* _run_analyzer that collected the position
    call,               \* the arguments of analyze_position but engine_analysis
    engine_analysis,    \* the engine's answer: <<>> before the call
    position_analysis,  \* the returned PositionAnalysis: <<>> before the return
    analyze_pc          \* "call" before the call, "done" after the return

analyzeVars == <<game, caller, call, engine_analysis, position_analysis, analyze_pc>>

VARIABLES
    pgn_game,              \* the Game row and its parsed PGN
    positions,             \* the positions collected by the replay
    positions_to_analyze,  \* the sampled positions
    position_analyses,     \* the PositionAnalysis objects of the loop
    loop_index,            \* the position of the loop in positions_to_analyze
    loop_previous_eval,    \* previous_eval of the loop
    engine_log,            \* what the engine call of each loop round came to
    chess_api_url,         \* ChessEngineProvider.chess_api_url
    analyzer_output,       \* <<>> until _run_analyzer returns, then <<output>>
    run_pc                 \* the position of _run_analyzer

runVars == <<pgn_game, positions, positions_to_analyze, position_analyses, loop_index,
             loop_previous_eval, engine_log, chess_api_url, analyzer_output, run_pc>>

VARIABLES
    pipeline_output,        \* <<>> until _run_analyzer returned, then <<output>>
    session_key_positions,  \* the KeyPosition rows flushed in the open transaction
    session_questions,      \* the Question rows added in the open transaction
    db_key_positions,       \* the committed KeyPosition rows of the game
    db_questions,           \* the committed Question rows of the game
    pipeline_attempt,       \* which call of _execute_pipeline run_pipeline is in
    pipeline_log,           \* what each finished call of _execute_pipeline came to
    pipeline_pc             \* the position of run_pipeline

pipeVars == <<pipeline_output, session_key_positions, session_questions,
              db_key_positions, db_questions, pipeline_attempt, pipeline_log,
              pipeline_pc>>

VARIABLES
    provider_url,     \* ChessEngineProvider.chess_api_url
    provider_call,    \* <<>>, or the arguments and the services of the last call
    provider_result,  \* <<>>, or what the last call came to
    provider_calls    \* the number of calls made on the provider

engVars == <<provider_url, provider_call, provider_result, provider_calls>>

\* the variables of the selection engine and of its pipeline
coreVars == <<selVars, scoreVars, analyzeVars, runVars, pipeVars>>

VARIABLES
    sub_db,        \* the committed rows: the game, its annotations, its approvals
    sub_request,   \* <<>>, or the last submit_game request and the rows it met
    sub_result     \* <<>>, or what the last submit_game request came to

subVars == <<sub_db, sub_request, sub_result>>

VARIABLES
    questions,      \* the committed Question rows of one game
    q_game_state,   \* the committed state of the game
    q_recorded,     \* the questions for which a request was recorded
    q_request,      \* <<>>, or the last answer_question request and what it met
    q_result        \* <<>>, or what the last request came to

ansVars == <<questions, q_game_state, q_recorded, q_request, q_result>>

VARIABLES
    lock_owner,       \* <<>>, or the task that holds the Redis lock ai_lock:<game>
    task_pc,          \* where each run_pipeline task of the game stands
    task_redis,       \* whether the task's orchestrator got a Redis client
    lock_game_state,  \* the committed state of the game
    task_loaded,      \* the state of the game as the task's _execute_pipeline read it
    task_persisted,   \* the number of key positions each task committed
    open_questions    \* the committed questions neither answered nor skipped

lockVars == <<lock_owner, task_pc, task_redis, lock_game_state, task_loaded,
              task_persisted, open_questions>>

\* the variables of the services around it
serviceVars == <<engVars, subVars, ansVars, lockVars>>

vars == <<coreVars, serviceVars>>

----------------------------------------------------------------------------
(* Generic helpers *)

Abs(x) == IF x < 0 THEN -x ELSE x

Min(a, b) == IF a <= b THEN a ELSE b

Max(a, b) == IF a >= b THEN a ELSE b

Range(s) == {s[i] : i \in 1..Len(s)}

\* Sequences over S of length 0..n
SeqUpTo(S, n) == UNION {[1..k -> S] : k \in 0..n}

----------------------------------------------------------------------------
(* Bounds of the selector's inputs *)

\* longest input list handed to select_key_positions
MaxLen == 3

\* largest min_positions / max_positions argument
MaxCount == 3

\* full-move numbers of the analyses: pairwise distances 1, 2, 3, 4, 5 and 7
MoveNumbers == {10, 12, 13, 17}

\* criticality scores of the analyses (only their order matters to the selector)
Scores == {20, 50}

\* The remaining fields of a PositionAnalysis (fen, half_move_number, ...) take
\* part in dataclass equality (line 536: `analysis not in selected`).  An input
\* list either repeats one fen (equality is decided by move number and score)
\* or gives every element its own (equality is identity).
FenPatterns == {"same", "distinct"}

FenOf(pattern, i) == IF pattern = "same" THEN 0 ELSE i

\* the fields of a PositionAnalysis that the selector reads
ScoredMove == [move_number : MoveNumbers, criticality_score : Scores]

MakeAnalyses(sm, pattern) ==
    [i \in 1..Len(sm) |->
        [move_number |-> sm[i].move_number,
         criticality_score |-> sm[i].criticality_score,
         fen |-> FenOf(pattern, i)]]

AnalysisLists ==
    {MakeAnalyses(sm, pattern) : sm \in SeqUpTo(ScoredMove, MaxLen), pattern \in FenPatterns}

----------------------------------------------------------------------------
(* PositionAnalyzer.rank_positions: sorted(..., key=criticality_score,      *)
(* reverse=True).  CPython sorts a list of fewer than 64 elements by binary *)
(* insertion, and reverse=True keeps equal keys in input order: an element  *)
(* is inserted behind every element whose key is >= its own.                *)

\* insertion in front of equal keys: an unstable ranking
InsertAtUnstable(an, r, i) ==
    Cardinality({p \in 1..Len(r) :
        \A q \in 1..p : an[r[q]].criticality_score > an[i].criticality_score})

\* insertion by ascending key: reverse=True forgotten
InsertAtAscending(an, r, i) ==
    Cardinality({p \in 1..Len(r) :
        \A q \in 1..p : an[r[q]].criticality_score <= an[i].criticality_score})

\* number of leading elements of r whose score is >= the score of input i
InsertAt(an, r, i) ==
    Cardinality({p \in 1..Len(r) :
        \A q \in 1..p : an[r[q]].criticality_score >= an[i].criticality_score})

SortedInsert(an, r, i) ==
    LET p == InsertAt(an, r, i)
    IN  SubSeq(r, 1, p) \o <<i>> \o SubSeq(r, p + 1, Len(r))

RECURSIVE RankFrom(_, _, _)
RankFrom(an, r, i) ==
    IF i > Len(an) THEN r ELSE RankFrom(an, SortedInsert(an, r, i), i + 1)

\* line 497 without the sort: the list in input order
rank_positions_unsorted(an) == [i \in 1..Len(an) |-> i]

rank_positions(an) == RankFrom(an, <<>>, 1)

----------------------------------------------------------------------------
(* PositionAnalyzer.select_key_positions *)

\* position_analyzer.py:525  abs(analysis.move_number - used_move) < 3
MinSpacing == 3

\* lines 524-527; used_move_numbers is the set of move numbers of `selected`
too_close(an, sel, a) ==
    \E s \in Range(sel) : Abs(an[a].move_number - an[s].move_number) < MinSpacing

\* line 529 with the floor test dropped
AcceptNoFloor(an, sel, a, mn) == ~too_close(an, sel, a)

\* line 529: if not too_close or len(selected) < min_positions
Accept(an, sel, a, mn) == ~too_close(an, sel, a) \/ Len(sel) < mn

\* lines 519-531: the greedy loop over the ranking
RECURSIVE GreedyPass(_, _, _, _, _, _)
GreedyPass(an, r, k, sel, mn, mx) ==
    IF k > Len(r) \/ Len(sel) >= mx
    THEN sel
    ELSE IF Accept(an, sel, r[k], mn)
         THEN GreedyPass(an, r, k + 1, Append(sel, r[k]), mn, mx)
         ELSE GreedyPass(an, r, k + 1, sel, mn, mx)

\* line 536 with the membership test always failing
InSelectedNever(an, sel, a) == FALSE

\* line 536: `analysis not in selected` compares dataclass values
InSelected(an, sel, a) == \E s \in Range(sel) : an[s] = an[a]

\* lines 535-539: the fill loop
RECURSIVE FillLoop(_, _, _, _, _)
FillLoop(an, r, k, sel, mn) ==
    IF k > Len(r)
    THEN sel
    ELSE IF ~InSelected(an, sel, r[k])
         THEN LET s2 == Append(sel, r[k])
              IN  IF Len(s2) >= mn THEN s2 ELSE FillLoop(an, r, k + 1, s2, mn)
         ELSE FillLoop(an, r, k + 1, sel, mn)

\* lines 534-539
FillPass(an, r, sel, mn) ==
    IF Len(sel) < mn THEN FillLoop(an, r, 1, sel, mn) ELSE sel

\* line 541 without the slice
TruncateNone(sel, mx) == sel

\* line 541: selected[:max_positions], for max_positions >= 0
Truncate(sel, mx) == SubSeq(sel, 1, Min(mx, Len(sel)))

\* lines 509-541
select_key_positions(an, mn, mx) ==
    IF Len(an) = 0
    THEN <<>>
    ELSE LET r == rank_positions(an)
         IN  Truncate(FillPass(an, r, GreedyPass(an, r, 1, <<>>, mn, mx), mn), mx)


----------------------------------------------------------------------------
(* Numbers.  The code computes with floats; the model computes exactly, with *)
(* evaluations, material and move quality in tenths (0.5 pawns = 5,          *)
(* quality 0.6 = 6) and criticality in 1/70 of a point, the unit in which    *)
(* every contribution of _calculate_criticality_score is a whole number.     *)

None == "None"

\* Optional[float]: the empty tuple is Python's None, <<x>> is the number x
NoEval == <<>>

Known(x) == <<x>>

\* abs(eval_score - previous_eval), for a known previous_eval
EvalChange(ev, prev) == Abs(ev - prev[1])

\* x criticality points in the model's unit
Points(x) == 70 * x

----------------------------------------------------------------------------
(* PositionAnalyzer._calculate_criticality_score *)

\* lines 425-428 with the 30-point cap dropped
SwingContributionUncapped(ev, prev) ==
    IF prev # NoEval /\ EvalChange(ev, prev) > 5 THEN EvalChange(ev, prev) * 105 ELSE 0

\* lines 425-428: min(30.0, eval_change * 15.0) when eval_change > 0.5
SwingContribution(ev, prev) ==
    IF prev # NoEval /\ EvalChange(ev, prev) > 5
    THEN Min(Points(30), EvalChange(ev, prev) * 105)
    ELSE 0

\* lines 431-432: min(25.0, len(tactical_patterns) * 8.0)
PatternContribution(patterns) ==
    IF patterns # {} THEN Min(Points(25), Points(8) * Cardinality(patterns)) ELSE 0

\* lines 435-436: min(20.0, len(threats) * 5.0)
ThreatContribution(thr) ==
    IF Len(thr) > 0 THEN Min(Points(20), Points(5) * Len(thr)) ELSE 0

\* lines 439-440: (50.0 - king_safety_score) / 50.0 * 15.0
KingContribution(ks) ==
    IF ks < 50 THEN (50 - ks) * 21 ELSE 0

\* lines 443-444: (0.7 - move_quality_score) / 0.7 * 10.0
QualityContribution(q) ==
    IF q < 7 THEN (7 - q) * 100 ELSE 0

\* lines 447-448 with the 1.0 not taken off: min(10.0, abs(eval_score) * 5.0)
MagnitudeContributionWhole(ev) ==
    IF Abs(ev) > 10 THEN Min(Points(10), Abs(ev) * 35) ELSE 0

\* lines 447-448: min(10.0, (abs(eval_score) - 1.0) * 5.0)
MagnitudeContribution(ev) ==
    IF Abs(ev) > 10 THEN Min(Points(10), (Abs(ev) - 10) * 35) ELSE 0

\* lines 451-452: min(5.0, (abs(material_balance) - 2.0) * 1.0)
MaterialContribution(mb) ==
    IF Abs(mb) > 20 THEN Min(Points(5), (Abs(mb) - 20) * 7) ELSE 0

\* line 454 without the clamp
ClampTotalNone(score) == score

\* line 454: min(100.0, score)
ClampTotal(score) == Min(Points(100), score)

\* lines 407-454 (depth is not read)
calculate_criticality_score(ev, prev, mb, patterns, ks, q, thr) ==
    ClampTotal(SwingContribution(ev, prev) + PatternContribution(patterns)
               + ThreatContribution(thr) + KingContribution(ks)
               + QualityContribution(q) + MagnitudeContribution(ev)
               + MaterialContribution(mb))

----------------------------------------------------------------------------
(* PositionAnalyzer._determine_reason_code *)

\* the eval-swing test moved in front of the pattern and threat tests
determine_reason_code_swing_first(ev, prev, patterns, thr, q) ==
    IF prev # NoEval /\ EvalChange(ev, prev) > 5 THEN "TRANSITION"
    ELSE IF patterns # {} THEN "THREAT_AWARENESS"
    ELSE IF Len(thr) > 0 THEN "THREAT_AWARENESS"
    ELSE IF Abs(ev) > 10 THEN "OPP_INTENT"
    ELSE IF q < 6 THEN "OPP_INTENT"
    ELSE "THREAT_AWARENESS"

\* line 487 with the test move_quality_score < 0.5
determine_reason_code_bad_only(ev, prev, patterns, thr, q) ==
    IF patterns # {} THEN "THREAT_AWARENESS"
    ELSE IF Len(thr) > 0 THEN "THREAT_AWARENESS"
    ELSE IF prev # NoEval /\ EvalChange(ev, prev) > 5 THEN "TRANSITION"
    ELSE IF Abs(ev) > 10 THEN "OPP_INTENT"
    ELSE IF q < 5 THEN "OPP_INTENT"
    ELSE "THREAT_AWARENESS"

\* lines 456-491 (material_balance is not read)
determine_reason_code(ev, prev, patterns, thr, q) ==
    IF patterns # {} THEN "THREAT_AWARENESS"
    ELSE IF Len(thr) > 0 THEN "THREAT_AWARENESS"
    ELSE IF prev # NoEval /\ EvalChange(ev, prev) > 5 THEN "TRANSITION"
    ELSE IF Abs(ev) > 10 THEN "OPP_INTENT"
    ELSE IF q < 6 THEN "OPP_INTENT"
    ELSE "THREAT_AWARENESS"

----------------------------------------------------------------------------
(* The board (python-chess chess.Board, as far as the analyzer reads it).   *)
(* Squares are numbered 0..63 = a1, b1, ..., h8; a board is a function from *)
(* squares to pieces.  The boards of the model carry no castling rights and *)
(* no en-passant square.                                                     *)

Squares == 0..63

\* chess.square_file, chess.square_rank
square_file(sq) == sq % 8

square_rank(sq) == sq \div 8

\* chess.square(file_index, rank_index): no range check
square(f, r) == r * 8 + f

OnBoard(f, r) == f \in 0..7 /\ r \in 0..7

Colors == {"WHITE", "BLACK"}

\* `not color`
Other(c) == IF c = "WHITE" THEN "BLACK" ELSE "WHITE"

PieceTypes == {"PAWN", "KNIGHT", "BISHOP", "ROOK", "QUEEN", "KING"}

\* board.piece_at(square) is None
NoPiece == [piece_type |-> "NONE", color |-> "NONE"]

Piece(t, c) == [piece_type |-> t, color |-> c]

EmptyBoard == [sq \in Squares |-> NoPiece]

\* the squares that hold a piece (of colour c)
Occupied(b) == {sq \in Squares : b[sq] # NoPiece}

OccupiedBy(b, c) == {sq \in Squares : b[sq].color = c}

\* squares reached from sq by steps of (df, dr) up to and including the first
\* occupied square
Ray(b, sq, df, dr) ==
    {square(square_file(sq) + k * df, square_rank(sq) + k * dr) :
        k \in {k \in 1..7 :
                 /\ OnBoard(square_file(sq) + k * df, square_rank(sq) + k * dr)
                 /\ \A j \in 1..(k - 1) :
                        b[square(square_file(sq) + j * df, square_rank(sq) + j * dr)] = NoPiece}}

Jumps(sq, offsets) ==
    {square(square_file(sq) + o[1], square_rank(sq) + o[2]) :
        o \in {o \in offsets : OnBoard(square_file(sq) + o[1], square_rank(sq) + o[2])}}

KnightOffsets ==
    {<<1, 2>>, <<2, 1>>, <<2, -1>>, <<1, -2>>, <<-1, -2>>, <<-2, -1>>, <<-2, 1>>, <<-1, 2>>}

KingOffsets ==
    {<<1, 0>>, <<1, 1>>, <<0, 1>>, <<-1, 1>>, <<-1, 0>>, <<-1, -1>>, <<0, -1>>, <<1, -1>>}

DiagonalDirs == {<<1, 1>>, <<-1, 1>>, <<-1, -1>>, <<1, -1>>}

StraightDirs == {<<1, 0>>, <<0, 1>>, <<-1, 0>>, <<0, -1>>}

Forward(c) == IF c = "WHITE" THEN 1 ELSE -1

\* board.attacks(square): the squares the piece on `sq` attacks, own pieces
\* and the first blocker of a slider included; empty for an empty square
attacks(b, sq) ==
    LET t == b[sq].piece_type
    IN  IF t = "PAWN" THEN Jumps(sq, {<<-1, Forward(b[sq].color)>>, <<1, Forward(b[sq].color)>>})
        ELSE IF t = "KNIGHT" THEN Jumps(sq, KnightOffsets)
        ELSE IF t = "KING" THEN Jumps(sq, KingOffsets)
        ELSE IF t = "BISHOP" THEN UNION {Ray(b, sq, d[1], d[2]) : d \in DiagonalDirs}
        ELSE IF t = "ROOK" THEN UNION {Ray(b, sq, d[1], d[2]) : d \in StraightDirs}
        ELSE IF t = "QUEEN" THEN UNION {Ray(b, sq, d[1], d[2]) : d \in DiagonalDirs \cup StraightDirs}
        ELSE {}

\* board.attackers(color, square)
attackers(b, c, sq) == {s \in OccupiedBy(b, c) : sq \in attacks(b, s)}

\* board.is_attacked_by(color, square)
is_attacked_by(b, c, sq) == \E s \in OccupiedBy(b, c) : sq \in attacks(b, s)

\* board.king(color) is None
NoSquare == 0 - 1

SetMax(S) == CHOOSE x \in S : \A y \in S : y <= x

\* board.king(color): the king's square (the highest if there are several)
king(b, c) ==
    LET ks == {sq \in Squares : b[sq] = Piece("KING", c)}
    IN  IF ks = {} THEN NoSquare ELSE SetMax(ks)

\* board.is_check(): the king of the side to move is attacked
is_check(b, turn) ==
    king(b, turn) # NoSquare /\ is_attacked_by(b, Other(turn), king(b, turn))

\* sum of the function f over the finite set S
RECURSIVE SumOver(_, _)
SumOver(S, f) ==
    IF S = {} THEN 0
    ELSE LET x == CHOOSE x \in S : TRUE
         IN  f[x] + SumOver(S \ {x}, f)

----------------------------------------------------------------------------
(* PositionAnalyzer: features of one position *)

\* PIECE_VALUES (lines 52-59), in tenths of a pawn
PIECE_VALUES(t) ==
    CASE t = "PAWN" -> 10
      [] t = "KNIGHT" -> 30
      [] t = "BISHOP" -> 32
      [] t = "ROOK" -> 50
      [] t = "QUEEN" -> 90
      [] t = "KING" -> 0
      [] OTHER -> 0

\* lines 180, 304, 348: side_to_move = chess.WHITE if is_player_turn else chess.BLACK
side_to_move(is_player_turn) == IF is_player_turn THEN "WHITE" ELSE "BLACK"

\* lines 164-165: the test that books a piece as the player's
IsPlayerPiece(p, is_player_turn) ==
    \/ p.color = "WHITE" /\ is_player_turn
    \/ p.color = "BLACK" /\ ~is_player_turn

\* lines 149-170
calculate_material_balance(b, is_player_turn) ==
    LET player_material ==
            [sq \in Occupied(b) |->
                IF IsPlayerPiece(b[sq], is_player_turn)
                THEN PIECE_VALUES(b[sq].piece_type) ELSE 0]
        opponent_material ==
            [sq \in Occupied(b) |->
                IF IsPlayerPiece(b[sq], is_player_turn)
                THEN 0 ELSE PIECE_VALUES(b[sq].piece_type)]
    IN  SumOver(Occupied(b), player_material) - SumOver(Occupied(b), opponent_material)

\* lines 324-337: the friendly pawns on the three shield squares
pawn_shield(b, stm, king_square) ==
    LET shield_square(file) ==
            IF stm = "WHITE" THEN square(file, square_rank(king_square) - 1)
            ELSE square(file, square_rank(king_square) + 1)
    IN  Cardinality({file_offset \in {-1, 0, 1} :
            LET file == square_file(king_square) + file_offset
            IN  /\ 0 <= file /\ file < 8
                /\ 0 <= shield_square(file) /\ shield_square(file) < 64
                /\ b[shield_square(file)] = Piece("PAWN", stm)})

\* line 341 without the clamp
ClampScoreNone(x) == x

\* line 341: max(0.0, min(100.0, safety_score))
ClampScore(x) == Max(0, Min(100, x))

\* lines 299-341
assess_king_safety(b, turn, is_player_turn) ==
    LET stm == side_to_move(is_player_turn)
        king_square == king(b, stm)
    IN  IF king_square = NoSquare THEN 0
        ELSE ClampScore(100 - (IF is_check(b, turn) THEN 30 ELSE 0)
                            - 10 * Cardinality(attackers(b, Other(stm), king_square))
                            + 5 * pawn_shield(b, stm, king_square))

\* A ratio num/den (den > 0) stands for the float piece-activity score.
Ratio(n, dn) == [num |-> n, den |-> dn]

\* line 367 without the clamp
NormalizeActivityUnclamped(activity_score, piece_count) ==
    Ratio(100 * activity_score, 8 * piece_count)

\* lines 366-367: min(100.0, (activity_score / piece_count / 8.0) * 100.0)
NormalizeActivity(activity_score, piece_count) ==
    IF 100 * activity_score >= 100 * 8 * piece_count
    THEN Ratio(100, 1)
    ELSE Ratio(100 * activity_score, 8 * piece_count)

\* lines 343-369
assess_piece_activity(b, is_player_turn) ==
    LET own == OccupiedBy(b, side_to_move(is_player_turn))
        reach == [sq \in own |-> Cardinality(attacks(b, sq))]
    IN  IF own = {} THEN Ratio(0, 1)
        ELSE NormalizeActivity(SumOver(own, reach), Cardinality(own))

----------------------------------------------------------------------------
(* Moves (python-chess chess.Move, Board.push, Board.legal_moves) *)

Move(f, t, promo) == [from_square |-> f, to_square |-> t, promotion |-> promo]

PromotionTypes == {"QUEEN", "ROOK", "BISHOP", "KNIGHT"}

\* the squares a pawn on sq may advance to
PawnPushes(b, sq) ==
    LET c == b[sq].color
        one == sq + 8 * Forward(c)
        two == sq + 16 * Forward(c)
        home == IF c = "WHITE" THEN 1 ELSE 6
    IN  IF one \notin Squares \/ b[one] # NoPiece THEN {}
        ELSE IF square_rank(sq) = home /\ b[two] = NoPiece THEN {one, two}
        ELSE {one}

\* the destinations of the piece on sq, its own king's safety left aside
Destinations(b, sq) ==
    IF b[sq].piece_type = "PAWN"
    THEN PawnPushes(b, sq) \cup {t \in attacks(b, sq) : b[t].color = Other(b[sq].color)}
    ELSE {t \in attacks(b, sq) : b[t].color # b[sq].color}

PromotionsOf(b, sq, t) ==
    IF b[sq].piece_type = "PAWN" /\ square_rank(t) \in {0, 7} THEN PromotionTypes ELSE {"NONE"}

\* Board.generate_pseudo_legal_moves (no castling rights, no en-passant square)
pseudo_legal_moves(b, turn) ==
    UNION {UNION {{Move(sq, t, pr) : pr \in PromotionsOf(b, sq, t)} : t \in Destinations(b, sq)} :
              sq \in OccupiedBy(b, turn)}

\* Board.push: the piece placement after the move
push(b, m) ==
    [b EXCEPT ![m.from_square] = NoPiece,
              ![m.to_square] = IF m.promotion = "NONE" THEN b[m.from_square]
                               ELSE Piece(m.promotion, b[m.from_square].color)]

\* Board.is_into_check: the mover's king is attacked after the move
is_into_check(b, turn, m) ==
    LET b2 == push(b, m)
    IN  king(b2, turn) # NoSquare /\ is_attacked_by(b2, Other(turn), king(b2, turn))

\* Board.legal_moves
legal_moves(b, turn) == {m \in pseudo_legal_moves(b, turn) : ~is_into_check(b, turn, m)}

\* Board.is_legal, which answers `move in board.legal_moves`
is_legal(b, turn, m) ==
    /\ b[m.from_square].color = turn
    /\ m.to_square \in Destinations(b, m.from_square)
    /\ m.promotion \in PromotionsOf(b, m.from_square, m.to_square)
    /\ ~is_into_check(b, turn, m)

\* board.remove_piece_at on a copy
remove_piece_at(b, sq) == [b EXCEPT ![sq] = NoPiece]

----------------------------------------------------------------------------
(* Strings.  A Python str is a sequence of one-character strings; an         *)
(* Optional[str] is <<>> for None and <<s>> for the string s.                *)

NoString == <<>>

Str(s) == <<s>>

FileNames == <<"a", "b", "c", "d", "e", "f", "g", "h">>

RankNames == <<"1", "2", "3", "4", "5", "6", "7", "8">>

\* chess.PIECE_SYMBOLS[1:]
PieceSymbols == <<"p", "n", "b", "r", "q", "k">>

SymbolTypes == <<"PAWN", "KNIGHT", "BISHOP", "ROOK", "QUEEN", "KING">>

IndexIn(names, ch) ==
    IF \E i \in 1..Len(names) : names[i] = ch
    THEN CHOOSE i \in 1..Len(names) : names[i] = ch
    ELSE 0

UpperCase == <<"A", "B", "C", "D", "E", "F", "G", "H", "K", "N", "P", "Q", "R">>

LowerCase == <<"a", "b", "c", "d", "e", "f", "g", "h", "k", "n", "p", "q", "r">>

\* str.lower()
lower(s) ==
    [i \in 1..Len(s) |->
        IF IndexIn(UpperCase, s[i]) # 0 THEN LowerCase[IndexIn(UpperCase, s[i])] ELSE s[i]]

\* chess.SQUARE_NAMES.index(name), NoSquare when it raises ValueError
SquareNamed(f, r) ==
    IF IndexIn(FileNames, f) # 0 /\ IndexIn(RankNames, r) # 0
    THEN square(IndexIn(FileNames, f) - 1, IndexIn(RankNames, r) - 1)
    ELSE NoSquare

\* chess.SQUARE_NAMES[square]
SquareName(sq) == <<FileNames[square_file(sq) + 1], RankNames[square_rank(sq) + 1]>>

\* Move.uci()
uci(m) ==
    SquareName(m.from_square) \o SquareName(m.to_square)
        \o (IF m.promotion = "NONE" THEN <<>>
            ELSE <<PieceSymbols[IndexIn(SymbolTypes, m.promotion)]>>)

\* the results of Move.from_uci that are no move of the board: it raised
\* ValueError, or it returned the null move "0000" or a drop "P@e4"
ParseError == [kind |-> "ValueError"]

NullOrDrop == [kind |-> "null_or_drop"]

Parsed(m) == [kind |-> "move", move |-> m]

\* chess.Move.from_uci
from_uci(s) ==
    IF s = <<"0", "0", "0", "0">> THEN NullOrDrop
    ELSE IF Len(s) = 4 /\ s[2] = "@"
    THEN IF IndexIn(PieceSymbols, lower(<<s[1]>>)[1]) # 0 /\ SquareNamed(s[3], s[4]) # NoSquare
         THEN NullOrDrop ELSE ParseError
    ELSE IF Len(s) \in {4, 5}
    THEN IF \/ SquareNamed(s[1], s[2]) = NoSquare
            \/ SquareNamed(s[3], s[4]) = NoSquare
            \/ (Len(s) = 5 /\ IndexIn(PieceSymbols, s[5]) = 0)
            \/ SquareNamed(s[1], s[2]) = SquareNamed(s[3], s[4])
         THEN ParseError
         ELSE Parsed(Move(SquareNamed(s[1], s[2]), SquareNamed(s[3], s[4]),
                          IF Len(s) = 5 THEN SymbolTypes[IndexIn(PieceSymbols, s[5])]
                          ELSE "NONE"))
    ELSE ParseError

----------------------------------------------------------------------------
(* PositionAnalyzer._detect_tactical_patterns and its helpers *)

\* lines 229-250: board_copy.is_check() asks for the side to move
is_pinned(b, turn, sq, color) ==
    /\ king(b, color) # NoSquare
    /\ b[sq] # NoPiece
    /\ b[sq].piece_type # "KING"
    /\ is_check(remove_piece_at(b, sq), turn)

\* lines 252-270
is_skewered(b, turn, sq, color) ==
    /\ b[sq] # NoPiece
    /\ PIECE_VALUES(b[sq].piece_type) >= 30
    /\ is_attacked_by(b, Other(color), sq)
    /\ is_pinned(b, turn, sq, color)

\* lines 272-297
has_discovered_attack(b, turn, color) ==
    \E m \in legal_moves(b, turn) :
        /\ b[m.from_square].color = color
        /\ LET b2 == push(b, m)
           IN  \E t \in Occupied(b2) :
                   /\ b2[t].color # color
                   /\ PIECE_VALUES(b2[t].piece_type) >= 30
                   /\ is_attacked_by(b2, color, t)

\* lines 184-202
has_fork(b, stm) ==
    \E sq \in OccupiedBy(b, stm) :
        Cardinality({t \in attacks(b, sq) :
            b[t].color = Other(stm) /\ PIECE_VALUES(b[t].piece_type) >= 30}) >= 2

\* lines 172-227
detect_tactical_patterns(b, turn, is_player_turn) ==
    LET stm == side_to_move(is_player_turn)
        opponent == Other(stm)
    IN  (IF has_fork(b, stm) THEN {"fork"} ELSE {})
        \cup (IF \E sq \in OccupiedBy(b, opponent) : is_pinned(b, turn, sq, opponent)
              THEN {"pin"} ELSE {})
        \cup (IF \E sq \in OccupiedBy(b, opponent) : is_skewered(b, turn, sq, opponent)
              THEN {"skewer"} ELSE {})
        \cup (IF has_discovered_attack(b, turn, stm) THEN {"discovered_attack"} ELSE {})

----------------------------------------------------------------------------
(* PositionAnalyzer._analyze_move_quality (tenths) *)

\* `not s` for an Optional[str]: None or the empty string
Falsy(s) == s = NoString \/ s[1] = <<>>

\* lines 383-405 with the equality test of line 387 ahead of the missing test
analyze_move_quality_equal_first(b, turn, played_move, best_move) ==
    IF played_move # NoString /\ lower(played_move[1]) = lower(best_move) THEN 10
    ELSE IF Falsy(played_move) \/ best_move = <<>> THEN 5
    ELSE LET r == from_uci(played_move[1])
         IN  IF r = ParseError THEN 5
             ELSE IF r = NullOrDrop THEN 0
             ELSE IF ~is_legal(b, turn, r.move) THEN 0
             ELSE 6

\* lines 383-405; best_move is a str
analyze_move_quality(b, turn, played_move, best_move) ==
    IF Falsy(played_move) \/ best_move = <<>> THEN 5
    ELSE IF lower(played_move[1]) = lower(best_move) THEN 10
    ELSE LET r == from_uci(played_move[1])
         IN  IF r = ParseError THEN 5
             ELSE IF r = NullOrDrop THEN 0
             ELSE IF ~is_legal(b, turn, r.move) THEN 0
             ELSE 6

----------------------------------------------------------------------------
(* Inputs of the two scoring functions *)

\* most threat descriptors in one engine answer
MaxThreats == 5

\* engine scores (tenths): around the 0.5 swing and the 1.0 magnitude tests
EvalScores == {-35, 0, 5, 6, 11, 15, 35}

\* material balances (tenths): around the 2.0 test and the 5-point cap
MaterialBalances == {-90, 0, 20, 21}

\* king safety scores: around the 50 test
KingSafetyScores == {0, 45, 50, 100}

\* the values _analyze_move_quality returns (tenths): lines 384, 388, 395, 403
MoveQualityScores == {0, 5, 6, 10}

\* the vocabulary of _detect_tactical_patterns (lines 202, 212, 221, 225)
PatternTags == {"fork", "pin", "skewer", "discovered_attack"}

ThreatLists == {[i \in 1..k |-> "threat"] : k \in 0..MaxThreats}

ScoreIdle ==
    /\ eval_score = 0
    /\ previous_eval = NoEval
    /\ material_balance = 0
    /\ tactical_patterns = {}
    /\ king_safety_score = 100
    /\ move_quality_score = 5
    /\ threats = <<>>
    /\ criticality_score = 0
    /\ reason_code = None
    /\ score_pc = "idle"

ScoreInit ==
    /\ eval_score \in EvalScores
    /\ previous_eval \in {Known(x) : x \in EvalScores} \cup {NoEval}
    /\ material_balance \in MaterialBalances
    /\ tactical_patterns \in SUBSET PatternTags
    /\ king_safety_score \in KingSafetyScores
    /\ move_quality_score \in MoveQualityScores
    /\ threats \in ThreatLists
    /\ criticality_score = 0
    /\ reason_code = None
    /\ score_pc = "call"

\* analyze_position lines 108-128: the two calls, on the same arguments
ScorePosition ==
    /\ score_pc = "call"
    /\ criticality_score' =
           calculate_criticality_score(eval_score, previous_eval, material_balance,
                                       tactical_patterns, king_safety_score,
                                       move_quality_score, threats)
    /\ reason_code' =
           determine_reason_code(eval_score, previous_eval, tactical_patterns,
                                 threats, move_quality_score)
    /\ score_pc' = "done"
    /\ UNCHANGED <<eval_score, previous_eval, material_balance, tactical_patterns,
                   king_safety_score, move_quality_score, threats>>

----------------------------------------------------------------------------
(* PositionAnalyzer.analyze_position (lines 64-147) *)

\* lines 89-98: the features that do not read the engine's answer
position_features(c) ==
    [material_balance |-> calculate_material_balance(c.fen.board, c.is_player_turn),
     tactical_patterns |-> detect_tactical_patterns(c.fen.board, c.fen.turn, c.is_player_turn),
     king_safety_score |-> assess_king_safety(c.fen.board, c.fen.turn, c.is_player_turn),
     piece_activity_score |-> assess_piece_activity(c.fen.board, c.is_player_turn)]

\* lines 64-147, on the features of lines 89-98
analyze_position(c, features, ea) ==
    LET material == features.material_balance
        patterns == features.tactical_patterns
        king_safety == features.king_safety_score
        activity == features.piece_activity_score
        quality == analyze_move_quality(c.fen.board, c.fen.turn, c.played_move, ea.best_move)
    IN  [fen |-> c.fen,
         move_number |-> c.move_number,
         half_move_number |-> c.half_move_number,
         is_player_turn |-> c.is_player_turn,
         played_move |-> c.played_move,
         eval_score |-> ea.score,
         best_move |-> ea.best_move,
         threats |-> ea.threats,
         depth |-> ea.depth,
         material_balance |-> material,
         tactical_patterns |-> patterns,
         king_safety_score |-> king_safety,
         piece_activity_score |-> activity,
         criticality_score |->
             calculate_criticality_score(ea.score, c.previous_eval, material, patterns,
                                         king_safety, quality, ea.threats),
         reason_code |->
             determine_reason_code(ea.score, c.previous_eval, patterns, ea.threats, quality),
         move_quality_score |-> quality]

----------------------------------------------------------------------------
(* Positions and engine answers of the analysis *)

\* most pieces on a board besides the kings
MaxExtra == 2

\* e1, e3, or no white king at all (a FEN that chess.Board accepts)
WhiteKingSquares == {4, 20, NoSquare}

\* e8
BlackKingSquares == {60}

\* d2, e2 (white pawns), d4 (white queen), d3 (black knight), e4 (black rook),
\* d8 (black queen)
ExtraPlacements ==
    {<<11, Piece("PAWN", "WHITE")>>, <<12, Piece("PAWN", "WHITE")>>,
     <<27, Piece("QUEEN", "WHITE")>>, <<19, Piece("KNIGHT", "BLACK")>>,
     <<28, Piece("ROOK", "BLACK")>>, <<59, Piece("QUEEN", "BLACK")>>}

PlaceAll(b, placements) ==
    [sq \in Squares |->
        IF \E pl \in placements : pl[1] = sq
        THEN (CHOOSE pl \in placements : pl[1] = sq)[2]
        ELSE b[sq]]

KingBoard(wk, bk) ==
    PlaceAll(EmptyBoard,
             (IF wk = NoSquare THEN {} ELSE {<<wk, Piece("KING", "WHITE")>>})
             \cup {<<bk, Piece("KING", "BLACK")>>})

Boards ==
    {PlaceAll(KingBoard(wk, bk), extra) :
        wk \in WhiteKingSquares, bk \in BlackKingSquares,
        extra \in {e \in SUBSET ExtraPlacements : Cardinality(e) <= MaxExtra}}

\* a position of a game: both kings on the board, and the side that has just
\* moved is not in check
GamePosition(b, turn) ==
    /\ king(b, "WHITE") # NoSquare
    /\ king(b, "BLACK") # NoSquare
    /\ ~is_check(b, Other(turn))

Fen(b, turn) == [board |-> b, turn |-> turn]

\* orchestrator.py:141,151 for the two plies around full move 10: move_count
\* is odd after a move of White, full_move_number = (move_count + 1) // 2
PlyOf(turn) == IF turn = "BLACK" THEN 19 ELSE 20

FullMoveOf(ply) == (ply + 1) \div 2

\* engine.py:273-278, the neutral fallback
NeutralFallback == [score |-> 0, best_move |-> <<>>, threats |-> <<>>, depth |-> 0]

EngineScores == {0, 35}

BestMoves == {<<"e", "1", "d", "1">>, <<"e", "8", "e", "7">>}

EngineAnalyses ==
    {NeutralFallback}
    \cup {[score |-> sc, best_move |-> bm, threats |-> th, depth |-> 15] :
             sc \in EngineScores, bm \in BestMoves,
             th \in {<<>>, [i \in 1..MaxThreats |-> "threat"]}}

\* played_move arguments of a direct call: None, "", "e1d1", "E1D1", "e1e2",
\* "e1e5", "e1"
DirectPlayedMoves ==
    {NoString, Str(<<>>), Str(<<"e", "1", "d", "1">>), Str(<<"E", "1", "D", "1">>),
     Str(<<"e", "1", "e", "2">>), Str(<<"e", "1", "e", "5">>), Str(<<"e", "1">>)}

PreviousEvals == {NoEval, Known(0)}

CallArgs(b, turn, ipt, played, prev) ==
    [fen |-> Fen(b, turn),
     move_number |-> FullMoveOf(PlyOf(turn)),
     half_move_number |-> PlyOf(turn),
     is_player_turn |-> ipt,
     played_move |-> played,
     previous_eval |-> prev]

\* orchestrator.py:147-148
IsPlayerTurn(turn, player_color) ==
    \/ turn = "WHITE" /\ player_color = "WHITE"
    \/ turn = "BLACK" /\ player_color = "BLACK"

AnalyzeIdle ==
    /\ game = [player_color |-> "WHITE"]
    /\ caller = "idle"
    /\ call = <<>>
    /\ engine_analysis = <<>>
    /\ position_analysis = <<>>
    /\ analyze_pc = "idle"

\* analyze_position called with arbitrary arguments
DirectCall ==
    /\ caller = "direct"
    /\ game = [player_color |-> "WHITE"]
    /\ \E b \in Boards, turn \in Colors, ipt \in BOOLEAN,
          played \in DirectPlayedMoves, prev \in PreviousEvals :
          call = <<CallArgs(b, turn, ipt, played, prev)>>

\* orchestrator.py:138-165: the replay pushes a move and collects the
\* position reached when the player is to move
EligibleCall ==
    /\ caller = "eligible"
    /\ \E pre \in Boards, turn \in Colors, prev \in PreviousEvals :
          /\ GamePosition(pre, Other(turn))
          /\ game = [player_color |-> turn]
          /\ \E m \in legal_moves(pre, Other(turn)) :
                 call = <<CallArgs(push(pre, m), turn, IsPlayerTurn(turn, game.player_color),
                                 Str(uci(m)), prev)>>

\* orchestrator.py:167-186: the fallback collects the position after ply 19
\* (Black to move) of a game of White that ends there; is_player_turn is set
\* to True and no played_move is stored
FallbackCall ==
    /\ caller = "fallback"
    /\ game = [player_color |-> "WHITE"]
    /\ \E pre \in Boards :
          /\ GamePosition(pre, "WHITE")
          /\ \E m \in legal_moves(pre, "WHITE") :
                 call = <<CallArgs(push(pre, m), "BLACK", TRUE, NoString, NoEval)>>

AnalyzeInit ==
    /\ DirectCall \/ EligibleCall \/ FallbackCall
    /\ engine_analysis = <<>>
    /\ position_analysis = <<>>
    /\ analyze_pc = "call"

\* orchestrator.py:214-230 / a direct call: the engine answers and
\* analyze_position runs on the answer
AnalyzePosition ==
    /\ analyze_pc = "call"
    /\ \E ea \in EngineAnalyses, features \in {position_features(call[1])} :
          /\ engine_analysis' = <<ea>>
          /\ position_analysis' = <<analyze_position(call[1], features, ea)>>
    /\ analyze_pc' = "done"
    /\ UNCHANGED <<game, caller, call>>

----------------------------------------------------------------------------
(* AIOrchestrator._run_analyzer: replay, fallback and sampling               *)
(* (orchestrator.py lines 132-201).  A game is its number of half-moves from *)
(* the standard starting position; the FEN of a position carries the move    *)
(* counters, so the positions of one game have pairwise different FENs and   *)
(* the model names a FEN by its ply.                                         *)

\* most half-moves of a game whose positions are collected and sampled
MaxPlies == 60

\* line 151: the first full move whose positions are collected
FirstFullMove == 10

\* line 195: min(10, len(positions))
MaxAnalyzed == 10

\* board.turn after `ply` half-moves
TurnAfter(ply) == IF ply % 2 = 0 THEN "WHITE" ELSE "BLACK"

\* lines 157-163 and 178-183: a positions entry; the fallback stores no
\* played_move
PositionEntry(ply, ipt, with_move) ==
    [fen |-> ply,
     move_number |-> FullMoveOf(ply),
     half_move_number |-> ply,
     is_player_turn |-> ipt,
     played_move |-> IF with_move THEN <<ply>> ELSE <<>>]

\* lines 138-165 without the test of the full move number (line 153)
ReplayPositionsAnyMove(g) ==
    LET eligible(ply) == IsPlayerTurn(TurnAfter(ply), g.player_color)
        plies == SelectSeq([i \in 1..g.n_plies |-> i], eligible)
    IN  [k \in 1..Len(plies) |-> PositionEntry(plies[k], TRUE, TRUE)]

\* lines 138-165
ReplayPositions(g) ==
    LET eligible(ply) ==
            /\ FullMoveOf(ply) >= FirstFullMove
            /\ IsPlayerTurn(TurnAfter(ply), g.player_color)
        plies == SelectSeq([i \in 1..g.n_plies |-> i], eligible)
    IN  [k \in 1..Len(plies) |-> PositionEntry(plies[k], TRUE, TRUE)]

\* lines 170-186 without the break
FallbackPositionsAll(g) ==
    LET late(ply) == FullMoveOf(ply) >= FirstFullMove
        plies == SelectSeq([i \in 1..g.n_plies |-> i], late)
    IN  [k \in 1..Len(plies) |-> PositionEntry(plies[k], TRUE, FALSE)]

\* lines 170-186: the first position of full move 10 or later
FallbackPositions(g) ==
    IF \E ply \in 1..g.n_plies : FullMoveOf(ply) >= FirstFullMove
    THEN <<PositionEntry(CHOOSE ply \in 1..g.n_plies :
                             /\ FullMoveOf(ply) >= FirstFullMove
                             /\ \A q \in 1..(ply - 1) : FullMoveOf(q) < FirstFullMove,
                         TRUE, FALSE)>>
    ELSE <<>>

\* lines 138-186
CollectedPositions(g) ==
    IF Len(ReplayPositions(g)) = 0 THEN FallbackPositions(g) ELSE ReplayPositions(g)

\* positions[::step]
EveryNth(ps, step) == [k \in 1..((Len(ps) + step - 1) \div step) |-> ps[(k - 1) * step + 1]]

\* lines 195-201 without the [:max_positions_to_analyze]
SamplePositionsUncapped(ps) ==
    LET max_positions_to_analyze == Min(MaxAnalyzed, Len(ps))
    IN  IF Len(ps) > max_positions_to_analyze
        THEN EveryNth(ps, Max(1, Len(ps) \div max_positions_to_analyze))
        ELSE ps

\* lines 195-201
SamplePositions(ps) ==
    LET max_positions_to_analyze == Min(MaxAnalyzed, Len(ps))
    IN  IF Len(ps) > max_positions_to_analyze
        THEN SubSeq(EveryNth(ps, Max(1, Len(ps) \div max_positions_to_analyze)),
                    1, max_positions_to_analyze)
        ELSE ps

\* what the positions of a game show to the feature extractor
Themes == {"quiet", "tactical"}

\* Game.player_color is an unvalidated string (models.py:21, router.py:44):
\* "WHITE", "BLACK", or a string the replay matches with neither colour
PlayerColors == {"WHITE", "BLACK", "white"}

Games(max_plies) ==
    [player_color : PlayerColors, n_plies : 0..max_plies, theme : Themes]

RunIdle ==
    /\ pgn_game = [player_color |-> "WHITE", n_plies |-> 0, theme |-> "quiet"]
    /\ positions = <<>>
    /\ positions_to_analyze = <<>>
    /\ position_analyses = <<>>
    /\ loop_index = 0
    /\ loop_previous_eval = NoEval
    /\ engine_log = <<>>
    /\ chess_api_url = None
    /\ analyzer_output = <<>>
    /\ run_pc = "idle"

\* _run_analyzer is called on a game; the provider is new (lines 21, 17 of
\* engine.py)
RunInit(max_plies) ==
    /\ pgn_game \in Games(max_plies)
    /\ positions = <<>>
    /\ positions_to_analyze = <<>>
    /\ position_analyses = <<>>
    /\ loop_index = 0
    /\ loop_previous_eval = NoEval
    /\ engine_log = <<>>
    /\ chess_api_url = None
    /\ analyzer_output = <<>>
    /\ run_pc = "start"

\* lines 132-208: replay, fallback, the empty return, sampling
CollectPositions ==
    /\ run_pc = "start"
    /\ positions' = CollectedPositions(pgn_game)
    /\ IF Len(positions') = 0
       THEN /\ positions_to_analyze' = <<>>
            /\ analyzer_output' = <<[key_positions |-> <<>>]>>
            /\ run_pc' = "returned"
            /\ loop_index' = loop_index
       ELSE /\ positions_to_analyze' = SamplePositions(positions')
            /\ analyzer_output' = analyzer_output
            /\ run_pc' = "loop"
            /\ loop_index' = 1
    /\ UNCHANGED <<pgn_game, position_analyses, loop_previous_eval, engine_log, chess_api_url>>

----------------------------------------------------------------------------
(* ChessEngineProvider.analyze_position (engine.py lines 19-280) under the   *)
(* asyncio.wait_for of orchestrator.py lines 214-217.  A request to an       *)
(* engine service answers, fails at once, or runs into its own timeout; the  *)
(* model counts the seconds that timeouts and sleeps take and lets every     *)
(* other step take none.                                                     *)

\* orchestrator.py:216  timeout=60.0
OuterTimeout == 60

\* engine.py:55, 227  timeout=30.0
RequestTimeout == 30

\* engine.py:181, 201  timeout=10.0
ProbeTimeout == 10

\* engine.py:149  wait_time = 1.0 * (attempt + 1) after the first attempt
RetryWait == 1

StockfishOutcomes == {"ok", "http_error", "timeout"}

ProbeOutcomes == {"ok", "error", "timeout"}

\* "malformed": HTTP 200 with an eval field that is a string
ChessApiOutcomes == {"ok", "malformed", "error", "timeout"}

\* how the services behave during one call: the two stockfish.online
\* attempts, the two chess-api.com probes, the chess-api.com request
EngineBehaviours ==
    [stockfish : [1..2 -> StockfishOutcomes],
     probe_v2 : ProbeOutcomes, probe_v1 : ProbeOutcomes,
     chess_api : ChessApiOutcomes]

\* engine.py:95-100: the answer of stockfish.online (tenths of a pawn)
StockfishAnswer ==
    [score |-> 35, best_move |-> <<"e", "1", "d", "1">>, threats |-> <<>>, depth |-> 15]

\* engine.py:249-254: the answer of chess-api.com
ChessApiAnswer ==
    [score |-> 0 - 10, best_move |-> <<"e", "8", "e", "7">>, threats |-> <<"threat">>,
     depth |-> 18]

\* engine.py:241: `eval` is handed on as it came.  An answer whose score is
\* a string carries it as score_text and has no (numeric) score.
MalformedAnswer ==
    [score_text |-> "0.8", best_move |-> <<"e", "8", "e", "7">>, threats |-> <<"threat">>,
     depth |-> 18]

ScoreIsNumber(answer) == "score" \in DOMAIN answer

CallReturned(answer, url, t) == [kind |-> "return", answer |-> answer, url |-> url, elapsed |-> t]

\* engine.py:280  raise last_error or Exception(...)
CallRaised(url, t) == [kind |-> "raise", answer |-> <<>>, url |-> url, elapsed |-> t]

\* engine.py:34-166: the stockfish.online attempts; the time at which they
\* end and whether they returned an answer
stockfish_stage(bh) ==
    IF bh.stockfish[1] = "ok" THEN [answered |-> TRUE, t |-> 0, attempts |-> 1]
    ELSE IF bh.stockfish[1] = "http_error" THEN [answered |-> FALSE, t |-> 0, attempts |-> 1]
    ELSE IF bh.stockfish[2] = "ok"
    THEN [answered |-> TRUE, t |-> RequestTimeout + RetryWait, attempts |-> 2]
    ELSE IF bh.stockfish[2] = "http_error"
    THEN [answered |-> FALSE, t |-> RequestTimeout + RetryWait, attempts |-> 2]
    ELSE [answered |-> FALSE, t |-> RequestTimeout + RetryWait + RequestTimeout,
          attempts |-> 2]

ProbeTime(outcome) == IF outcome = "timeout" THEN ProbeTimeout ELSE 0

\* engine.py:169-212: the URL to use, and the time the probes took
probe_stage(url, bh) ==
    IF url # None THEN [url |-> url, t |-> 0]
    ELSE IF bh.probe_v2 = "ok" THEN [url |-> "v2", t |-> 0]
    ELSE IF bh.probe_v1 = "ok" THEN [url |-> "v1", t |-> ProbeTime(bh.probe_v2)]
    ELSE [url |-> None, t |-> ProbeTime(bh.probe_v2) + ProbeTime(bh.probe_v1)]

\* engine.py:268-280 with fallback_on_error=True
NeutralAnswer == NeutralFallback

\* engine.py:268-280 with the fallback whatever fallback_on_error is
all_endpoints_failed_fallback(fallback_on_error, url, t) == CallReturned(NeutralAnswer, url, t)

\* engine.py:268-280: all API URLs failed
all_endpoints_failed(fallback_on_error, url, t) ==
    IF fallback_on_error THEN CallReturned(NeutralAnswer, url, t) ELSE CallRaised(url, t)

\* engine.py:19-280: ChessEngineProvider.analyze_position left to itself
engine_analyze_position(url, bh, fallback_on_error) ==
    LET sf == stockfish_stage(bh)
        pr == probe_stage(url, bh)
        t == sf.t + pr.t
        \* lines 258, 264: the cached URL is dropped when its request fails
        dropped == IF url = pr.url THEN None ELSE url
    IN  IF sf.answered THEN CallReturned(StockfishAnswer, url, sf.t)
        ELSE IF pr.url = None THEN all_endpoints_failed(fallback_on_error, url, t)
        ELSE IF bh.chess_api = "ok" THEN CallReturned(ChessApiAnswer, pr.url, t)
        ELSE IF bh.chess_api = "malformed" THEN CallReturned(MalformedAnswer, pr.url, t)
        ELSE IF bh.chess_api = "error" THEN all_endpoints_failed(fallback_on_error, dropped, t)
        ELSE all_endpoints_failed(fallback_on_error, dropped, t + RequestTimeout)

\* orchestrator.py:215: the loop calls it with the default fallback_on_error
engine_call(url, bh) == engine_analyze_position(url, bh, TRUE)

\* most calls made on one provider
MaxCalls == 2

EngIdle ==
    /\ provider_url = None
    /\ provider_call = <<>>
    /\ provider_result = <<>>
    /\ provider_calls = 0

\* engine.py:11-17: a new provider
EngInit == EngIdle

\* engine.py:19-280: one call of analyze_position on the provider
CallEngine ==
    /\ provider_calls < MaxCalls
    /\ \E bh \in EngineBehaviours, fallback_on_error \in BOOLEAN :
           \E result \in {engine_analyze_position(provider_url, bh, fallback_on_error)} :
               /\ provider_call' = <<[fallback_on_error |-> fallback_on_error,
                                      behaviour |-> bh, url |-> provider_url,
                                      attempts |-> stockfish_stage(bh).attempts]>>
               /\ provider_result' = <<result>>
               /\ provider_url' = result.url
    /\ provider_calls' = provider_calls + 1

\* orchestrator.py:214-217: the call is cancelled when it has not returned
\* after 60 seconds; the cancelled call has not touched the cached URL
awaited_engine_call(url, bh) ==
    IF engine_call(url, bh).elapsed >= OuterTimeout
    THEN [kind |-> "TimeoutError", answer |-> <<>>, url |-> url]
    ELSE [kind |-> "return", answer |-> engine_call(url, bh).answer,
          url |-> engine_call(url, bh).url]

EngineOutcomes(url) == {awaited_engine_call(url, bh) : bh \in EngineBehaviours}

----------------------------------------------------------------------------
(* AIOrchestrator._run_analyzer: the analysis loop and the output            *)
(* (orchestrator.py lines 208-305) and _fallback_key_positions (307-371).    *)
(* The boards of the game are left out: a theme fixes what the feature       *)
(* extractor finds on them.                                                  *)

\* most half-moves of a game whose analysis loop is run
RunPlies == 27

\* position_analyzer.py lines 97-101 on the boards of a game of the theme
ThemeFeatures(theme) ==
    IF theme = "quiet"
    THEN [material_balance |-> 0, tactical_patterns |-> {}, king_safety_score |-> 100,
          piece_activity_score |-> Ratio(50, 1)]
    ELSE [material_balance |-> 30, tactical_patterns |-> {"fork", "pin"},
          king_safety_score |-> 40, piece_activity_score |-> Ratio(100, 1)]

\* position_analyzer.py lines 383-405 on a position of the replay: the played
\* move is the move that led to the position (orchestrator.py:155), its
\* from-square is empty now, so it is no legal move; an engine that names it
\* as its best move is left out
sampled_move_quality(pos, best_move) ==
    IF pos.played_move = <<>> \/ best_move = <<>> THEN 5 ELSE 0

\* position_analyzer.py lines 64-147 on a position of the replay
analyze_sampled_position(pos, features, ea, prev) ==
    LET quality == sampled_move_quality(pos, ea.best_move)
    IN  [fen |-> pos.fen,
         move_number |-> pos.move_number,
         half_move_number |-> pos.half_move_number,
         is_player_turn |-> pos.is_player_turn,
         played_move |-> pos.played_move,
         eval_score |-> ea.score,
         best_move |-> ea.best_move,
         threats |-> ea.threats,
         depth |-> ea.depth,
         material_balance |-> features.material_balance,
         tactical_patterns |-> features.tactical_patterns,
         king_safety_score |-> features.king_safety_score,
         piece_activity_score |-> features.piece_activity_score,
         criticality_score |->
             calculate_criticality_score(ea.score, prev, features.material_balance,
                                         features.tactical_patterns,
                                         features.king_safety_score, quality, ea.threats),
         reason_code |->
             determine_reason_code(ea.score, prev, features.tactical_patterns, ea.threats,
                                   quality),
         move_quality_score |-> quality]

\* lines 263-271 with the reason code left at None
KeyPositionWithoutReason(a) ==
    [fen |-> a.fen,
     reason_code |-> None,
     engine_truth |-> [score |-> a.eval_score, best_move |-> a.best_move,
                       threats |-> a.threats]]

\* orchestrator.py lines 263-271, 289-297
KeyPositionOf(a) ==
    [fen |-> a.fen,
     reason_code |-> a.reason_code,
     engine_truth |-> [score |-> a.eval_score, best_move |-> a.best_move,
                       threats |-> a.threats]]

\* orchestrator.py lines 358-369
FallbackKeyPosition(pos, reason) ==
    [fen |-> pos.fen,
     reason_code |-> reason,
     engine_truth |-> [score |-> 0, best_move |-> <<>>, threats |-> <<>>]]

\* orchestrator.py:356
reason_codes == <<"OPP_INTENT", "THREAT_AWARENESS", "TRANSITION">>

\* orchestrator.py lines 307-371
fallback_key_positions(ps, g) ==
    IF Len(ps) = 0
    THEN LET total_moves == g.n_plies
             target_moves == Min(20, Max(15, total_moves \div 2))
             move_count == Min(total_moves, target_moves)
         IN  IF move_count >= 10
             THEN [key_positions |->
                      <<[fen |-> move_count,
                         reason_code |-> "THREAT_AWARENESS",
                         engine_truth |-> [score |-> 0, best_move |-> <<>>,
                                           threats |-> <<>>]]>>]
             ELSE [key_positions |-> <<>>]
    ELSE LET sample_size == Min(3, Len(ps))
             step == Max(1, Len(ps) \div sample_size)
             sampled == SubSeq(EveryNth(ps, step), 1, Min(sample_size, Len(EveryNth(ps, step))))
         IN  [key_positions |->
                 [i \in 1..Len(sampled) |->
                     FallbackKeyPosition(sampled[i], reason_codes[((i - 1) % 3) + 1])]]

\* orchestrator.py lines 283-297: key positions added from the remaining
\* analyses
FillUp(pas, kps) ==
    IF Len(kps) < 3 /\ Len(pas) > Len(kps)
    THEN LET not_taken(a) == \A k \in 1..Len(kps) : kps[k].fen # a.fen
             remaining == SelectSeq(pas, not_taken)
             order == rank_positions(remaining)
             more == Min(3 - Len(kps), Len(remaining))
         IN  kps \o [i \in 1..more |-> KeyPositionOf(remaining[order[i]])]
    ELSE kps

\* orchestrator.py lines 247-305
run_output(pas, ps, g) ==
    IF Len(pas) = 0 THEN fallback_key_positions(ps, g)
    ELSE LET selected_analyses == select_key_positions(pas, 3, 5)
             key_positions ==
                 [i \in 1..Len(selected_analyses) |-> KeyPositionOf(pas[selected_analyses[i]])]
         IN  IF Len(key_positions) = 0 THEN fallback_key_positions(ps, g)
             ELSE [key_positions |->
                      SubSeq(FillUp(pas, key_positions), 1,
                             Min(5, Len(FillUp(pas, key_positions))))]

\* line 231 left out: previous_eval keeps its value
ThreadedEvalKept(prev, analysis) == prev

\* orchestrator.py:231  previous_eval = position_analysis.eval_score
ThreadedEval(prev, analysis) == Known(analysis.eval_score)

\* lines 240, 243 with `break` for `continue`
AfterFailureBreak(index, n) == n + 1

\* orchestrator.py:240, 243  `continue`: the loop goes on with the next position
AfterFailure(index, n) == index + 1

\* what a loop round came to: the engine's outcome and the previous_eval of
\* that moment
RoundLog(outcome, prev) ==
    [kind |-> outcome.kind, answer |-> outcome.answer, previous_eval |-> prev]

\* orchestrator.py lines 211-245, one round of the loop: the engine call,
\* analyze_position on its answer, or `continue` on TimeoutError or on any
\* other exception (the arithmetic on a score that is no number raises
\* TypeError).  The last round runs on to the return of line 305.
AnalyzeSampled ==
    /\ run_pc = "loop"
    /\ loop_index <= Len(positions_to_analyze)
    /\ \E outcome \in EngineOutcomes(chess_api_url) :
          /\ chess_api_url' = outcome.url
          /\ engine_log' = Append(engine_log, RoundLog(outcome, loop_previous_eval))
          /\ IF outcome.kind = "return" /\ ScoreIsNumber(outcome.answer)
             THEN /\ position_analyses' =
                        Append(position_analyses,
                               analyze_sampled_position(positions_to_analyze[loop_index],
                                                        ThemeFeatures(pgn_game.theme),
                                                        outcome.answer, loop_previous_eval))
                  /\ loop_previous_eval' =
                        ThreadedEval(loop_previous_eval,
                                     position_analyses'[Len(position_analyses')])
                  /\ loop_index' = loop_index + 1
             ELSE /\ UNCHANGED <<position_analyses, loop_previous_eval>>
                  /\ loop_index' = AfterFailure(loop_index, Len(positions_to_analyze))
    /\ IF loop_index' > Len(positions_to_analyze)
       THEN /\ analyzer_output' = <<run_output(position_analyses', positions, pgn_game)>>
            /\ run_pc' = "returned"
       ELSE UNCHANGED <<analyzer_output, run_pc>>
    /\ UNCHANGED <<pgn_game, positions, positions_to_analyze>>

----------------------------------------------------------------------------
(* The selector as a state machine: a call with arbitrary arguments *)

SelIdle ==
    /\ analyses = <<>>
    /\ min_positions = 0
    /\ max_positions = 0
    /\ ranked = <<>>
    /\ first_pass = <<>>
    /\ selected = <<>>
    /\ sel_pc = "idle"

SelInit ==
    /\ analyses \in AnalysisLists
    /\ min_positions \in 0..MaxCount
    /\ max_positions \in 0..MaxCount
    /\ ranked = <<>>
    /\ first_pass = <<>>
    /\ selected = <<>>
    /\ sel_pc = "call"

\* the caller's list after analyses.sort(key=..., reverse=True) in the place
\* of line 497
sorted_in_place(an) == [i \in 1..Len(an) |-> an[rank_positions(an)[i]]]

\* the caller's list after the call: line 497 sorts a copy (sorted), and
\* lines 516-541 append to and slice `selected` only
argument_after_call(an) == an

\* one call of select_key_positions on the caller's list
CallSelector ==
    /\ ranked' = rank_positions(analyses)
    /\ first_pass' = IF Len(analyses) = 0 THEN <<>>
                     ELSE GreedyPass(analyses, rank_positions(analyses), 1, <<>>,
                                     min_positions, max_positions)
    /\ selected' = select_key_positions(analyses, min_positions, max_positions)
    /\ analyses' = argument_after_call(analyses)
    /\ UNCHANGED <<min_positions, max_positions>>

SelectKeyPositions ==
    /\ sel_pc = "call"
    /\ CallSelector
    /\ sel_pc' = "done"

\* the caller calls again with the same list and the same bounds
SelectAgain ==
    /\ sel_pc = "done"
    /\ CallSelector
    /\ sel_pc' = "again"

----------------------------------------------------------------------------
(* AIOrchestrator.run_pipeline and validate_analyzer_output                  *)
(* (orchestrator.py lines 26-107, validators/orchestrator_validator.py)      *)

\* the largest number of key positions of an analyzer output handed to the
\* validator
MaxKeyPositions == 6

\* run_pipeline calls _execute_pipeline once, and once more after an exception
\* (orchestrator.py lines 44, 57)
MaxAttempts == 2

\* a dict without the key f
Without(r, f) == [x \in DOMAIN r \ {f} |-> r[x]]

\* the keys validate_analyzer_output looks for
KeyPositionKeys == {"fen", "reason_code", "engine_truth"}

EngineTruthKeys == {"best_move", "score"}

\* a key position dict as _run_analyzer builds it
SoundKeyPosition(k) == FallbackKeyPosition([fen |-> k], "THREAT_AWARENESS")

\* a key position dict without one of the keys
DefectiveKeyPosition(k, key) ==
    IF key \in EngineTruthKeys
    THEN [SoundKeyPosition(k) EXCEPT !.engine_truth = Without(@, key)]
    ELSE Without(SoundKeyPosition(k), key)

\* the key_positions lists handed to the validator: at most one entry lacks a key
KeyPositionLists(max) ==
    UNION {{[k \in 1..n |-> SoundKeyPosition(k)]} \cup
           {[k \in 1..n |-> IF k = bad THEN DefectiveKeyPosition(k, key)
                            ELSE SoundKeyPosition(k)] :
               bad \in 1..n, key \in KeyPositionKeys \cup EngineTruthKeys} :
           n \in 0..max}

\* the dicts handed to validate_analyzer_output
AnalyzerOutputs ==
    {[key_positions |-> kps] : kps \in KeyPositionLists(MaxKeyPositions)} \cup
    {[positions |-> <<>>]}

\* validate_analyzer_output without the check of the count
validate_analyzer_output_any_count(output) ==
    IF "key_positions" \notin DOMAIN output
    THEN "Missing key_positions in analyzer output"
    ELSE IF \E k \in 1..Len(output.key_positions) :
                ~(KeyPositionKeys \subseteq DOMAIN output.key_positions[k])
         THEN "Missing field in key position"
         ELSE IF \E k \in 1..Len(output.key_positions) :
                     ~(EngineTruthKeys \subseteq
                           DOMAIN output.key_positions[k].engine_truth)
              THEN "EngineTruth missing best_move or score"
              ELSE "returned"

\* validators/orchestrator_validator.py lines 1-22: "returned", or the message
\* of the ValueError raised
validate_analyzer_output(output) ==
    IF "key_positions" \notin DOMAIN output
    THEN "Missing key_positions in analyzer output"
    ELSE LET kp_count == Len(output.key_positions)
             FirstViolation[k \in 1..(kp_count + 1)] ==
                 IF k > kp_count THEN "returned"
                 ELSE LET kp == output.key_positions[k]
                      IN  IF ~(KeyPositionKeys \subseteq DOMAIN kp)
                          THEN "Missing field in key position"
                          ELSE IF ~(EngineTruthKeys \subseteq DOMAIN kp.engine_truth)
                               THEN "EngineTruth missing best_move or score"
                               ELSE FirstViolation[k + 1]
         IN  IF ~(1 <= kp_count /\ kp_count <= 5)
             THEN "Invalid number of key positions"
             ELSE FirstViolation[1]

\* orchestrator.py:406
categories == <<"OPP_INTENT", "THREAT", "CHANGE", "WORST_PIECE", "ALTERNATIVES",
                "REFLECTION">>

\* orchestrator.py lines 86-92 with the order counted from 1
KeyPositionRowFromOne(pos, i) ==
    [fen |-> pos.fen, reason_code |-> pos.reason_code,
     engine_truth |-> pos.engine_truth, order |-> i + 1]

\* orchestrator.py lines 86-92
KeyPositionRow(pos, i) ==
    [fen |-> pos.fen, reason_code |-> pos.reason_code,
     engine_truth |-> pos.engine_truth, order |-> i]

\* orchestrator.py lines 414-419
QuestionRows(i) ==
    {[key_position |-> i, category |-> categories[c], order |-> c - 1] :
        c \in 1..Len(categories)}

\* what flushing a row and generating its questions can come to
PersistOutcomes == {"ok", "Exception"}

PipeIdle ==
    /\ pipeline_output = <<>>
    /\ session_key_positions = <<>>
    /\ session_questions = {}
    /\ db_key_positions = <<>>
    /\ db_questions = {}
    /\ pipeline_attempt = 0
    /\ pipeline_log = <<>>
    /\ pipeline_pc = "idle"

\* run_pipeline has called _execute_pipeline (orchestrator.py:44)
PipeInit ==
    /\ pipeline_output = <<>>
    /\ session_key_positions = <<>>
    /\ session_questions = {}
    /\ db_key_positions = <<>>
    /\ db_questions = {}
    /\ pipeline_attempt = 1
    /\ pipeline_log = <<>>
    /\ pipeline_pc = "analyze"

\* the entry of a finished call of _execute_pipeline
CallLog(output, outcome, kps, qs) ==
    [output |-> output, outcome |-> outcome,
     key_positions |-> kps, questions |-> qs]

\* an exception leaves _execute_pipeline: the transaction of line 65 is rolled
\* back, and run_pipeline calls _execute_pipeline again after the first one
\* (orchestrator.py lines 51-61)
Raise(output, outcome) ==
    /\ pipeline_log' = Append(pipeline_log,
                              CallLog(output, outcome, session_key_positions,
                                      session_questions))
    /\ session_key_positions' = <<>>
    /\ session_questions' = {}
    /\ pipeline_output' = <<>>
    /\ UNCHANGED <<db_key_positions, db_questions>>
    /\ IF pipeline_attempt < MaxAttempts
       THEN /\ pipeline_attempt' = pipeline_attempt + 1
            /\ pipeline_pc' = "analyze"
       ELSE /\ pipeline_attempt' = pipeline_attempt
            /\ pipeline_pc' = "failed"

\* orchestrator.py lines 76-82: _run_analyzer returns and its output is
\* validated
ValidateOutput ==
    /\ pipeline_pc = "analyze"
    /\ \E output \in AnalyzerOutputs :
           IF validate_analyzer_output(output) = "returned"
           THEN /\ pipeline_output' = <<output>>
                /\ pipeline_pc' = "persist"
                /\ UNCHANGED <<session_key_positions, session_questions,
                               db_key_positions, db_questions, pipeline_attempt,
                               pipeline_log>>
           ELSE Raise(output, "ValueError")

\* orchestrator.py lines 85-99: one round of the persistence loop
PersistKeyPosition ==
    /\ pipeline_pc = "persist"
    /\ Len(session_key_positions) < Len(pipeline_output[1].key_positions)
    /\ \E outcome \in PersistOutcomes :
           LET i == Len(session_key_positions)
               pos == pipeline_output[1].key_positions[i + 1]
           IN  IF outcome = "ok"
               THEN /\ session_key_positions' =
                           Append(session_key_positions, KeyPositionRow(pos, i))
                    /\ session_questions' = session_questions \cup QuestionRows(i)
                    /\ UNCHANGED <<pipeline_output, db_key_positions, db_questions,
                                   pipeline_attempt, pipeline_log, pipeline_pc>>
               ELSE Raise(pipeline_output[1], outcome)

\* orchestrator.py lines 101-107: the loop is over, the transaction commits
CommitPipeline ==
    /\ pipeline_pc = "persist"
    /\ Len(session_key_positions) = Len(pipeline_output[1].key_positions)
    /\ db_key_positions' = session_key_positions
    /\ db_questions' = session_questions
    /\ session_key_positions' = <<>>
    /\ session_questions' = {}
    /\ pipeline_log' = Append(pipeline_log,
                              CallLog(pipeline_output[1], "committed",
                                      session_key_positions, session_questions))
    /\ pipeline_pc' = "done"
    /\ UNCHANGED <<pipeline_output, pipeline_attempt>>

----------------------------------------------------------------------------
(* SubmissionService.submit_game (games/submission_service.py lines 13-73)   *)
(* on one game.  The rows are those committed to the database; what a        *)
(* request changes on its session only is lost when the request ends with    *)
(* an exception.                                                             *)

\* common/models.py lines 8-12
GameStates == {"EDITABLE", "SUBMITTED", "COACHING", "COMPLETED"}

\* common/models.py:79  STANDARD, ADVANCED
Tiers == {"STANDARD", "ADVANCED"}

PgnTexts == {"1. e4 e5", "1. d4 d5"}

\* most annotations and most approvals of the game
MaxAnnotations == 1

MaxApprovals == 1

\* common/models.py lines 74-83: a ParentApproval row of the game;
\* expired stands for expires_at <= now
ParentApprovals == [tier : Tiers, approved : BOOLEAN, used : BOOLEAN, expired : BOOLEAN]

\* the rows of one game
Databases ==
    UNION {[game : [state : GameStates, pgn : {None} \cup PgnTexts],
            annotations : [1..na -> [frozen : BOOLEAN]],
            approvals : [1..np -> ParentApprovals]] :
           na \in 0..MaxAnnotations, np \in 0..MaxApprovals}

\* lines 23, 49: the dict returned
SubmitReturned(message, db) == [kind |-> "return", message |-> message, db |-> db]

\* an exception leaves submit_game: nothing of the session is committed
SubmitRaised(error, message, db) == [kind |-> error, message |-> message, db |-> db]

\* lines 51-60: the query for a previous completed run reads the row of the
\* same game
requires_approval(db, tier) ==
    IF tier # "STANDARD" THEN TRUE ELSE db.game.state = "COMPLETED"

\* lines 62-72: the approvals the query selects
valid_approvals(db, tier) ==
    {a \in DOMAIN db.approvals :
        /\ db.approvals[a].tier = tier
        /\ db.approvals[a].approved
        /\ ~db.approvals[a].used
        /\ ~db.approvals[a].expired}

\* lines 37-49.  The module imports Game, GameState and ParentApproval
\* (line 3) but not Annotation: building update(Annotation) at line 40 raises
\* NameError after game.pgn was set on the session, and nothing is committed.
update_and_freeze(db, session, pgn) ==
    SubmitRaised("NameError", "name 'Annotation' is not defined", db)

\* lines 29-49
submit_checked(db, pgn, tier) ==
    IF requires_approval(db, tier)
    THEN IF Cardinality(valid_approvals(db, tier)) > 1
         THEN \* line 73: scalar_one_or_none() on several rows
              SubmitRaised("MultipleResultsFound", "Multiple rows were found", db)
         ELSE IF valid_approvals(db, tier) = {}
         THEN SubmitRaised("ValueError", "Parent approval required", db)
         ELSE LET approval == CHOOSE a \in valid_approvals(db, tier) : TRUE
              IN  update_and_freeze(db, [db EXCEPT !.approvals[approval].used = TRUE], pgn)
    ELSE update_and_freeze(db, db, pgn)

\* lines 13-49 without the validation of the transition
submit_game_unvalidated(db, pgn, tier) ==
    IF db.game.state = "SUBMITTED"
    THEN SubmitReturned("Game already submitted", db)
    ELSE submit_checked(db, pgn, tier)

\* lines 13-49
submit_game(db, pgn, tier) ==
    IF db.game.state = "SUBMITTED"
    THEN SubmitReturned("Game already submitted", db)
    ELSE IF db.game.state # "EDITABLE"
    THEN SubmitRaised("ValueError", "Invalid transition", db)
    ELSE submit_checked(db, pgn, tier)

SubIdle ==
    /\ sub_db = [game |-> [state |-> "EDITABLE", pgn |-> None],
                 annotations |-> <<>>, approvals |-> <<>>]
    /\ sub_request = <<>>
    /\ sub_result = <<>>

SubInit ==
    /\ sub_db \in Databases
    /\ sub_request = <<>>
    /\ sub_result = <<>>

\* games/router.py lines 95-141: one submit request
SubmitGame ==
    \E pgn \in PgnTexts, tier \in Tiers :
        \E result \in {submit_game(sub_db, pgn, tier)} :
            /\ sub_request' = <<[pgn |-> pgn, tier |-> tier, db |-> sub_db]>>
            /\ sub_result' = <<[kind |-> result.kind, message |-> result.message]>>
            /\ sub_db' = result.db

----------------------------------------------------------------------------
(* answer_question (questions/router.py lines 19-90) on the questions of one *)
(* game.  answer_text is <<>> for NULL and <<text>> for a text.              *)

\* the number of questions of the game
MaxQuestions == 2

\* QuestionAnswer.content (router.py:16): the default "" and a text
Contents == {"", "Nf3 was better"}

\* what _generate_reflection_from_answers (router.py lines 93 ff.) comes to
ReflectionOutcomes == {"ok", "Exception"}

\* router.py:38  question.answer_text or question.skipped
AlreadyAnswered(question) ==
    (question.answer_text # <<>> /\ question.answer_text[1] # "") \/ question.skipped

\* router.py lines 42-47
WithAnswer(question, content, skipped) ==
    IF skipped THEN [question EXCEPT !.skipped = TRUE]
    ELSE [question EXCEPT !.answer_text = <<content>>]

\* router.py lines 54-61: answer_text IS NULL and skipped is false
Remaining(rows) == {q \in DOMAIN rows : rows[q].answer_text = <<>> /\ ~rows[q].skipped}

AnswerResult(kind, rows, state) == [kind |-> kind, questions |-> rows, state |-> state]

\* lines 65-82 with the test of line 65 dropped: every recorded answer
\* completes the game
answer_question_completing(rows, state, question_id, content, skipped, reflection) ==
    IF AlreadyAnswered(rows[question_id])
    THEN AnswerResult("409 Question already answered", rows, state)
    ELSE LET changed == [rows EXCEPT ![question_id] = WithAnswer(@, content, skipped)]
         IN  IF reflection = "ok"
             THEN AnswerResult("Answer recorded", changed, "COMPLETED")
             ELSE AnswerResult("Exception", rows, state)

\* router.py lines 19-90: the result and the rows committed
answer_question(rows, state, question_id, content, skipped, reflection) ==
    IF AlreadyAnswered(rows[question_id])
    THEN AnswerResult("409 Question already answered", rows, state)
    ELSE LET changed == [rows EXCEPT ![question_id] = WithAnswer(@, content, skipped)]
         IN  IF Remaining(changed) = {}
             THEN IF reflection = "ok"
                  THEN AnswerResult("Answer recorded", changed, "COMPLETED")
                  ELSE \* line 75: the transaction is rolled back
                       AnswerResult("Exception", rows, state)
             ELSE AnswerResult("Answer recorded", changed, state)

AnsIdle ==
    /\ questions = <<>>
    /\ q_game_state = "EDITABLE"
    /\ q_recorded = {}
    /\ q_request = <<>>
    /\ q_result = <<>>

\* the questions as the pipeline stored them (common/models.py lines 64-72)
AnsInit ==
    /\ questions = [q \in 1..MaxQuestions |-> [answer_text |-> <<>>, skipped |-> FALSE]]
    /\ q_game_state = "COACHING"
    /\ q_recorded = {}
    /\ q_request = <<>>
    /\ q_result = <<>>

\* one answer_question request
AnswerQuestion ==
    \E question_id \in DOMAIN questions, content \in Contents, skipped \in BOOLEAN,
       reflection \in ReflectionOutcomes :
        \E result \in {answer_question(questions, q_game_state, question_id, content,
                                       skipped, reflection)} :
            /\ q_request' = <<[question_id |-> question_id, content |-> content,
                               skipped |-> skipped, questions |-> questions,
                               recorded |-> q_recorded, state |-> q_game_state]>>
            /\ q_result' = <<result.kind>>
            /\ questions' = result.questions
            /\ q_game_state' = result.state
            /\ q_recorded' = IF result.kind = "Answer recorded"
                             THEN q_recorded \cup {question_id} ELSE q_recorded

----------------------------------------------------------------------------
(* AIOrchestrator.run_pipeline under LockManager.with_lock:                 *)
(* backend/api/ai/orchestrator.py lines 26-61, common/lock_manager.py.      *)
(* The background tasks of one game (games/router.py line 127) interleave   *)
(* at their awaits.  What _execute_pipeline does is SpecPipeline's matter;  *)
(* here it is a step that begins and a step that returns or raises.         *)

\* the run_pipeline tasks of one game
MaxTasks == 3

Tasks == 1..MaxTasks

\* the places of a task in which _execute_pipeline is in progress:
\* line 44 (under the lock), line 48 (lock not acquired), line 57 (second try)
Executing == {"line 44", "line 48", "line 57"}

InExecutePipeline == {t \in DOMAIN task_pc : task_pc[t] \in Executing}

\* most key positions one run commits in the model (the validator lets 1 to
\* 5 through)
MaxPersist == 2

LockIdle ==
    /\ lock_owner = <<>>
    /\ task_pc = <<>>
    /\ task_redis = <<>>
    /\ lock_game_state = "EDITABLE"
    /\ task_loaded = <<>>
    /\ task_persisted = <<>>
    /\ open_questions = 0

\* the tasks are queued by submit requests on a SUBMITTED game; each request
\* connected to Redis or did not (games/router.py lines 113-127).  A call
\* with the id of no game finds no row (lines 32, 67).
LockInit ==
    /\ lock_owner = <<>>
    /\ task_pc = [t \in Tasks |-> "queued"]
    /\ task_redis \in [Tasks -> BOOLEAN]
    /\ lock_game_state \in {"SUBMITTED", None}
    /\ task_loaded = [t \in Tasks |-> None]
    /\ task_persisted = [t \in Tasks |-> 0]
    /\ open_questions = 0

\* lines 30-36: the state update before the lock
PreLock(t) ==
    /\ task_pc[t] = "queued"
    /\ task_pc' = [task_pc EXCEPT ![t] = "line 42"]
    /\ lock_game_state' = IF lock_game_state = "SUBMITTED" THEN "COACHING"
                          ELSE lock_game_state
    /\ UNCHANGED <<lock_owner, task_redis, task_loaded, task_persisted, open_questions>>

\* acquire_lock (lock_manager.py lines 16-20): lock.acquire(blocking=False);
\* without a Redis client self.redis.lock raises AttributeError
acquire_lock(owner, t, redis) ==
    IF ~redis THEN "AttributeError"
    ELSE IF owner = <<>> THEN "acquired"
    ELSE "not acquired"

\* line 42: with_lock (lock_manager.py lines 30-43) and what run_pipeline
\* does with its outcome (lines 44, 45-48, 51-57); _execute_pipeline begins
\* by reading the game (lines 65-67)
WithLock(t) ==
    /\ task_pc[t] = "line 42"
    /\ \E acquired \in {acquire_lock(lock_owner, t, task_redis[t])} :
           CASE acquired = "acquired" ->
                    /\ lock_owner' = <<t>>
                    /\ task_pc' = [task_pc EXCEPT ![t] = "line 44"]
             [] acquired = "not acquired" ->
                    \* RuntimeError "Could not acquire lock for ..."
                    /\ task_pc' = [task_pc EXCEPT ![t] = "line 48"]
                    /\ UNCHANGED lock_owner
             [] acquired = "AttributeError" ->
                    /\ task_pc' = [task_pc EXCEPT ![t] = "line 57"]
                    /\ UNCHANGED lock_owner
    /\ task_loaded' = [task_loaded EXCEPT ![t] = lock_game_state]
    /\ UNCHANGED <<task_redis, lock_game_state, task_persisted, open_questions>>

\* release_lock (lock_manager.py lines 22-28): a lock that expired or that
\* another task holds by now is left alone
release_lock(owner, t) == IF owner = <<t>> THEN <<>> ELSE owner

\* lines 74, 105 and 106: game.state = GameState.COACHING on the row as
\* read, then commit; the UPDATE is issued when the value read was another
committed_state(loaded, state) ==
    IF loaded = "COACHING" THEN state ELSE "COACHING"

\* _execute_pipeline returns: no game (lines 69-71), or the key positions
\* and their questions are committed with the state (lines 84-107)
ExecuteReturns(t) ==
    /\ task_pc[t] \in Executing
    /\ task_pc' = [task_pc EXCEPT ![t] = "returned"]
    /\ lock_owner' = IF task_pc[t] = "line 44" THEN release_lock(lock_owner, t)
                     ELSE lock_owner
    /\ IF task_loaded[t] = None
       THEN UNCHANGED <<lock_game_state, task_persisted, open_questions>>
       ELSE \E n \in 1..MaxPersist :
               /\ task_persisted' = [task_persisted EXCEPT ![t] = n]
               /\ open_questions' = open_questions + n * Len(categories)
               /\ lock_game_state' = committed_state(task_loaded[t], lock_game_state)
    /\ UNCHANGED <<task_redis, task_loaded>>

\* _execute_pipeline raises (validate_analyzer_output, the database) and its
\* transaction is rolled back: under the lock it is caught at line 51 and
\* run again without the lock, at line 48 it leaves run_pipeline, at line 57
\* it is printed (lines 58-61)
ExecuteRaises(t) ==
    /\ task_pc[t] \in Executing
    /\ task_loaded[t] # None
    /\ task_pc' = [task_pc EXCEPT ![t] =
                       CASE task_pc[t] = "line 44" -> "line 57"
                         [] task_pc[t] = "line 48" -> "raised"
                         [] task_pc[t] = "line 57" -> "returned"]
    /\ lock_owner' = IF task_pc[t] = "line 44" THEN release_lock(lock_owner, t)
                     ELSE lock_owner
    /\ task_loaded' = [task_loaded EXCEPT ![t] =
                           IF task_pc[t] = "line 44" THEN lock_game_state ELSE @]
    /\ UNCHANGED <<task_redis, lock_game_state, task_persisted, open_questions>>

\* the lock's timeout of 300 s (lock_manager.py line 12) passes in Redis
LockExpires ==
    /\ lock_owner # <<>>
    /\ lock_owner' = <<>>
    /\ UNCHANGED <<task_pc, task_redis, lock_game_state, task_loaded, task_persisted,
                   open_questions>>

----------------------------------------------------------------------------
(* The life of one game: the submit route (games/router.py lines 95-141),   *)
(* the run_pipeline tasks it schedules and answer_question.                  *)

\* most submit requests repeated while the game is SUBMITTED
MaxResubmits == 1

\* a SUBMITTED game with the run its submit scheduled, as the tests of
\* test_ai_orchestrator.py set it up
LifeInit ==
    /\ lock_owner = <<>>
    /\ task_pc = [t \in Tasks |-> IF t = 1 THEN "queued" ELSE "none"]
    /\ task_redis \in [Tasks -> BOOLEAN]
    /\ lock_game_state = "SUBMITTED"
    /\ task_loaded = [t \in Tasks |-> None]
    /\ task_persisted = [t \in Tasks |-> 0]
    /\ open_questions = 0

\* a submit request on a game that is still SUBMITTED: submit_game returns
\* "Game already submitted" (submission_service.py lines 22-23) and the route
\* schedules one more run (router.py lines 109-127).  On a COACHING or
\* COMPLETED game the route answers 409 and schedules nothing.
SubmitAgain ==
    /\ lock_game_state = "SUBMITTED"
    /\ \E t \in Tasks :
           /\ t <= 1 + MaxResubmits
           /\ task_pc[t] = "none"
           /\ \A u \in 1..(t - 1) : task_pc[u] # "none"
           /\ task_pc' = [task_pc EXCEPT ![t] = "queued"]
    /\ UNCHANGED <<lock_owner, task_redis, lock_game_state, task_loaded, task_persisted,
                   open_questions>>

\* answer_question on an open question (questions/router.py lines 42-87):
\* the last one completes the game unless the reflection fails
AnswerOpenQuestion ==
    /\ open_questions > 0
    /\ \E reflection \in ReflectionOutcomes :
           IF open_questions = 1
           THEN IF reflection = "ok"
                THEN open_questions' = 0 /\ lock_game_state' = "COMPLETED"
                ELSE UNCHANGED <<open_questions, lock_game_state>>
           ELSE /\ open_questions' = open_questions - 1
                /\ UNCHANGED lock_game_state
    /\ UNCHANGED <<lock_owner, task_pc, task_redis, task_loaded, task_persisted>>

----------------------------------------------------------------------------
(* Specifications *)

CoreIdle == SelIdle /\ ScoreIdle /\ AnalyzeIdle /\ RunIdle /\ PipeIdle

ServiceIdle == EngIdle /\ SubIdle /\ AnsIdle /\ LockIdle

SelNext ==
    /\ SelectKeyPositions \/ SelectAgain
    /\ UNCHANGED <<scoreVars, analyzeVars, runVars, pipeVars, serviceVars>>

InitSelector == SelInit /\ ScoreIdle /\ AnalyzeIdle /\ RunIdle /\ PipeIdle /\ ServiceIdle

SpecSelector == InitSelector /\ [][SelNext]_vars

ScoreNext == ScorePosition /\ UNCHANGED <<selVars, analyzeVars, runVars, pipeVars, serviceVars>>

InitScore == ScoreInit /\ SelIdle /\ AnalyzeIdle /\ RunIdle /\ PipeIdle /\ ServiceIdle

SpecScore == InitScore /\ [][ScoreNext]_vars

AnalyzeNext == AnalyzePosition /\ UNCHANGED <<selVars, scoreVars, runVars, pipeVars, serviceVars>>

InitAnalyze == AnalyzeInit /\ SelIdle /\ ScoreIdle /\ RunIdle /\ PipeIdle /\ ServiceIdle

SpecAnalyze == InitAnalyze /\ [][AnalyzeNext]_vars

SampleNext ==
    CollectPositions /\ UNCHANGED <<selVars, scoreVars, analyzeVars, pipeVars, serviceVars>>

InitSample == RunInit(MaxPlies) /\ SelIdle /\ ScoreIdle /\ AnalyzeIdle /\ PipeIdle /\ ServiceIdle

SpecSample == InitSample /\ [][SampleNext]_vars

RunNext ==
    /\ CollectPositions \/ AnalyzeSampled
    /\ UNCHANGED <<selVars, scoreVars, analyzeVars, pipeVars, serviceVars>>

InitRun == RunInit(RunPlies) /\ SelIdle /\ ScoreIdle /\ AnalyzeIdle /\ PipeIdle /\ ServiceIdle

SpecRun == InitRun /\ [][RunNext]_vars

PipeNext ==
    /\ ValidateOutput \/ PersistKeyPosition \/ CommitPipeline
    /\ UNCHANGED <<selVars, scoreVars, analyzeVars, runVars, serviceVars>>

InitPipeline == PipeInit /\ SelIdle /\ ScoreIdle /\ AnalyzeIdle /\ RunIdle /\ ServiceIdle

SpecPipeline == InitPipeline /\ [][PipeNext]_vars

EngineNext == CallEngine /\ UNCHANGED <<coreVars, subVars, ansVars, lockVars>>

InitEngine == EngInit /\ CoreIdle /\ SubIdle /\ AnsIdle /\ LockIdle

SpecEngine == InitEngine /\ [][EngineNext]_vars

SubmitNext == SubmitGame /\ UNCHANGED <<coreVars, engVars, ansVars, lockVars>>

InitSubmit == SubInit /\ CoreIdle /\ EngIdle /\ AnsIdle /\ LockIdle

SpecSubmit == InitSubmit /\ [][SubmitNext]_vars

AnswerNext == AnswerQuestion /\ UNCHANGED <<coreVars, engVars, subVars, lockVars>>

InitAnswer == AnsInit /\ CoreIdle /\ EngIdle /\ SubIdle /\ LockIdle

SpecAnswer == InitAnswer /\ [][AnswerNext]_vars

LockNext ==
    /\ \/ \E t \in Tasks : PreLock(t)
       \/ \E t \in Tasks : WithLock(t)
       \/ \E t \in Tasks : ExecuteReturns(t)
       \/ \E t \in Tasks : ExecuteRaises(t)
       \/ LockExpires
    /\ UNCHANGED <<coreVars, engVars, subVars, ansVars>>

InitLock == LockInit /\ CoreIdle /\ EngIdle /\ SubIdle /\ AnsIdle

SpecLock == InitLock /\ [][LockNext]_vars

TaskStep(t) ==
    /\ PreLock(t) \/ WithLock(t) \/ ExecuteReturns(t) \/ ExecuteRaises(t)
    /\ UNCHANGED <<coreVars, engVars, subVars, ansVars>>

AnswerStep == AnswerOpenQuestion /\ UNCHANGED <<coreVars, engVars, subVars, ansVars>>

LifeNext ==
    /\ \/ SubmitAgain
       \/ \E t \in Tasks : PreLock(t)
       \/ \E t \in Tasks : WithLock(t)
       \/ \E t \in Tasks : ExecuteReturns(t)
       \/ \E t \in Tasks : ExecuteRaises(t)
       \/ LockExpires
       \/ AnswerOpenQuestion
    /\ UNCHANGED <<coreVars, engVars, subVars, ansVars>>

InitLife == LifeInit /\ CoreIdle /\ EngIdle /\ SubIdle /\ AnsIdle

SpecLife == InitLife /\ [][LifeNext]_vars

\* every scheduled run goes on until it returns or raises, and the user
\* answers the open questions until the answer is recorded
SpecLifeFair ==
    /\ InitLife
    /\ [][LifeNext]_vars
    /\ \A t \in Tasks : WF_vars(TaskStep(t))
    /\ WF_vars(AnswerStep)

----------------------------------------------------------------------------
(* Properties of the selector *)

Returned == sel_pc = "done"

NInputs == Len(analyses)

MoveOf(i) == analyses[i].move_number

ScoreOf(i) == analyses[i].criticality_score

\* the output names every input at most once (by identity)
NoRepeat(s) == \A i, j \in 1..Len(s) : i # j => s[i] # s[j]

\* input a stands before input b in the stable descending ranking
RanksBefore(a, b) ==
    \/ ScoreOf(a) > ScoreOf(b)
    \/ ScoreOf(a) = ScoreOf(b) /\ a < b

\* every pair of distinct inputs is at most 2 full moves apart
AllWithinTwo == \A i, j \in 1..NInputs : i # j => Abs(MoveOf(i) - MoveOf(j)) <= 2

\* every pair of distinct inputs passes the spacing test of line 525
WellSpaced == \A i, j \in 1..NInputs : i # j => Abs(MoveOf(i) - MoveOf(j)) >= MinSpacing

\* C1: for every input list and every min_count, max_count >= 0 (also
\* min_count > max_count) select_key_positions returns at most max_count
\* positions.
C1_AtMostMax == Returned => Len(selected) <= max_positions

\* C1 witness: min_count > max_count, the fill pass went beyond max_count and
\* the slice cut the result back to max_count.
C1_Witness ==
    /\ Returned
    /\ min_positions > max_positions
    /\ max_positions >= 1
    /\ NInputs > max_positions
    /\ Len(FillPass(analyses, ranked, first_pass, min_positions)) > max_positions
    /\ Len(selected) = max_positions

\* C2 as stated: for min_count <= max_count and n >= min_count inputs at least
\* min_count positions are returned, and exactly min_count when all inputs
\* lie within 2 full moves of each other.
C2_Original ==
    (Returned /\ min_positions <= max_positions /\ NInputs >= min_positions)
        => /\ Len(selected) >= min_positions
           /\ AllWithinTwo => Len(selected) = min_positions

\* C2 amended: the floor holds as stated; with all inputs within 2 full moves
\* of each other exactly min_count positions are returned when min_count >= 1,
\* and exactly one when min_count = 0, max_count >= 1 and the input is not
\* empty (the first candidate has no accepted neighbour to be close to).
C2_Floor ==
    (Returned /\ min_positions <= max_positions /\ NInputs >= min_positions)
        => /\ Len(selected) >= min_positions
           /\ (AllWithinTwo /\ min_positions >= 1) => Len(selected) = min_positions
           /\ (AllWithinTwo /\ min_positions = 0)
                 => Len(selected) = Min(1, Min(max_positions, NInputs))

\* C2 witness: more inputs than min_count >= 1, all within 2 full moves, and
\* exactly min_count of them returned.
C2_Witness ==
    /\ Returned
    /\ min_positions >= 2
    /\ min_positions <= max_positions
    /\ NInputs > min_positions
    /\ AllWithinTwo
    /\ \E i, j \in 1..NInputs : MoveOf(i) # MoveOf(j)
    /\ Len(selected) = min_positions

\* C3 as stated: every returned position at index >= min_count (counting from
\* 0) is more than 3 full moves away from every position before it in the
\* output.
C3_Original ==
    Returned =>
        \A i \in 1..Len(selected) : \A j \in 1..(i - 1) :
            i > min_positions
                => Abs(MoveOf(selected[i]) - MoveOf(selected[j])) > 3

\* C4: with n >= max_count inputs that are all well spaced, exactly max_count
\* positions are returned, and they are the first max_count of the stable
\* descending ranking, in ranking order.
C4_Ceiling ==
    (Returned /\ NInputs >= max_positions /\ WellSpaced)
        => /\ Len(selected) = max_positions
           /\ NoRepeat(selected)
           /\ \A i, j \in 1..Len(selected) :
                  i < j => RanksBefore(selected[i], selected[j])
           /\ \A k \in 1..NInputs :
                  k \notin Range(selected)
                      => \A i \in 1..Len(selected) : RanksBefore(selected[i], k)

\* C4 witness: more well-spaced inputs than max_count, with distinct scores,
\* so the ceiling drops a lower-scored input that stood earlier in the list.
C4_Witness ==
    /\ Returned
    /\ max_positions >= 2
    /\ NInputs > max_positions
    /\ WellSpaced
    /\ Len(selected) = max_positions
    /\ \E k \in 1..NInputs :
          /\ k \notin Range(selected)
          /\ \E i \in 1..Len(selected) : k < selected[i]

\* C5 as stated: a non-empty input of n < min_count analyses is returned
\* whole, every element exactly once.
C5_Original ==
    (Returned /\ NInputs >= 1 /\ NInputs < min_positions)
        => /\ Len(selected) = NInputs
           /\ Range(selected) = 1..NInputs

\* C5 amended: a non-empty input of n < min_count analyses with
\* n <= max_count is returned whole, every element exactly once; when
\* max_count < n the first max_count of them are returned, none twice.
C5_FewerThanMin ==
    (Returned /\ NInputs >= 1 /\ NInputs < min_positions)
        => /\ Len(selected) = Min(NInputs, max_positions)
           /\ NoRepeat(selected)
           /\ Range(selected) \subseteq 1..NInputs
           /\ NInputs <= max_positions => Range(selected) = 1..NInputs

\* C5 witness: two inputs that compare equal as dataclass values, fewer than
\* min_count, both returned.
C5_Witness ==
    /\ Returned
    /\ NInputs = 2
    /\ min_positions > NInputs
    /\ max_positions >= NInputs
    /\ analyses[1] = analyses[2]
    /\ Len(selected) = 2

\* C6: rank_positions returns a permutation of its input in non-increasing
\* order of criticality score, and equal scores keep their input order.
C6_StableRanking ==
    Returned =>
        /\ Len(ranked) = NInputs
        /\ Range(ranked) = 1..NInputs
        /\ \A i, j \in 1..Len(ranked) :
               i < j => /\ ScoreOf(ranked[i]) >= ScoreOf(ranked[j])
                        /\ ScoreOf(ranked[i]) = ScoreOf(ranked[j]) => ranked[i] < ranked[j]

\* C6 witness: a ranking that moved a later, higher-scored input to the front
\* and kept two equal scores in input order.
C6_Witness ==
    /\ Returned
    /\ NInputs = 3
    /\ ScoreOf(1) < ScoreOf(2)
    /\ ScoreOf(1) = ScoreOf(3)
    /\ ranked = <<2, 1, 3>>

----------------------------------------------------------------------------
(* Properties of the scoring functions *)

Scored == score_pc = "done"

HasPattern == tactical_patterns # {}

HasThreat == Len(threats) > 0

\* previous eval known and |eval - previous| > 0.5
HasSwing == previous_eval # NoEval /\ Abs(eval_score - previous_eval[1]) > 5

\* |eval| > 1.0
BigEval == eval_score > 10 \/ eval_score < -10

\* C7: the reason code is assigned by first match in the order pattern,
\* threat, eval swing > 0.5, |eval| > 1.0, move quality < 0.6, default; a
\* position with a pattern and a swing is THREAT_AWARENESS, and TRANSITION is
\* returned only without pattern and threat.
C7_ReasonPriority ==
    Scored =>
        /\ HasPattern => reason_code = "THREAT_AWARENESS"
        /\ HasThreat => reason_code = "THREAT_AWARENESS"
        /\ (~HasPattern /\ ~HasThreat /\ HasSwing) => reason_code = "TRANSITION"
        /\ (~HasPattern /\ ~HasThreat /\ ~HasSwing /\ BigEval)
               => reason_code = "OPP_INTENT"
        /\ (~HasPattern /\ ~HasThreat /\ ~HasSwing /\ ~BigEval /\ move_quality_score < 6)
               => reason_code = "OPP_INTENT"
        /\ (~HasPattern /\ ~HasThreat /\ ~HasSwing /\ ~BigEval /\ move_quality_score >= 6)
               => reason_code = "THREAT_AWARENESS"
        /\ reason_code = "TRANSITION" => (~HasPattern /\ ~HasThreat)

\* C7 witness: a tactical pattern together with an eval swing > 0.5,
\* classified THREAT_AWARENESS.
C7_Witness ==
    /\ Scored
    /\ HasPattern
    /\ ~HasThreat
    /\ HasSwing
    /\ reason_code = "THREAT_AWARENESS"

\* the seven contributions as the claim words them, in 1/70 of a point
C8_Swing ==
    IF HasSwing THEN Min(30 * 70, 15 * 7 * Abs(eval_score - previous_eval[1])) ELSE 0

C8_Patterns ==
    IF HasPattern THEN Min(25 * 70, 8 * 70 * Cardinality(tactical_patterns)) ELSE 0

C8_Threats == IF HasThreat THEN Min(20 * 70, 5 * 70 * Len(threats)) ELSE 0

C8_King == IF king_safety_score < 50 THEN ((50 - king_safety_score) * 15 * 70) \div 50 ELSE 0

C8_Quality == IF move_quality_score < 7 THEN ((7 - move_quality_score) * 10 * 70) \div 7 ELSE 0

C8_Magnitude == IF BigEval THEN Min(10 * 70, 5 * 7 * (Abs(eval_score) - 10)) ELSE 0

C8_Material ==
    IF Abs(material_balance) > 20 THEN Min(5 * 70, 7 * (Abs(material_balance) - 20)) ELSE 0

C8_Sum ==
    C8_Swing + C8_Patterns + C8_Threats + C8_King + C8_Quality + C8_Magnitude + C8_Material

\* C8: the criticality score is min(100, sum of the seven contributions),
\* every contribution stays within its own cap, and the result is in [0,100].
C8_Criticality ==
    Scored =>
        /\ criticality_score = Min(100 * 70, C8_Sum)
        /\ C8_Swing \in 0..(30 * 70)
        /\ C8_Patterns \in 0..(25 * 70)
        /\ C8_Threats \in 0..(20 * 70)
        /\ C8_King \in 0..(15 * 70)
        /\ C8_Quality \in 0..(10 * 70)
        /\ C8_Magnitude \in 0..(10 * 70)
        /\ C8_Material \in 0..(5 * 70)
        /\ criticality_score \in 0..(100 * 70)

\* C8 witness: all seven contributions at work with a sum above 100, clamped
\* to exactly 100.
C8_Witness ==
    /\ Scored
    /\ C8_Swing > 0 /\ C8_Patterns > 0 /\ C8_Threats > 0 /\ C8_King > 0
    /\ C8_Quality > 0 /\ C8_Magnitude > 0 /\ C8_Material > 0
    /\ C8_Sum > 100 * 70
    /\ criticality_score = 100 * 70

----------------------------------------------------------------------------
(* Properties of analyze_position *)

Analysed == analyze_pc = "done"

Piped == caller \in {"eligible", "fallback"}

\* summed point values (tenths) of the pieces of colour c
MaterialOf(b, c) ==
    SumOver(OccupiedBy(b, c), [sq \in OccupiedBy(b, c) |-> PIECE_VALUES(b[sq].piece_type)])

\* C9: every PositionAnalysis that analyze_position returns has
\* king_safety_score, piece_activity_score and criticality_score between 0
\* and 100 and move_quality_score between 0 and 1, for every board and every
\* answer of the engine.
C9_ScoreRanges ==
    Analysed =>
        LET r == position_analysis[1]
        IN  /\ 0 <= r.king_safety_score /\ r.king_safety_score <= 100
            /\ r.piece_activity_score.den > 0
            /\ 0 <= r.piece_activity_score.num
            /\ r.piece_activity_score.num <= 100 * r.piece_activity_score.den
            /\ 0 <= r.criticality_score /\ r.criticality_score <= Points(100)
            /\ 0 <= r.move_quality_score /\ r.move_quality_score <= 10

\* a position of the pipeline whose king is behind two pawns and unattacked:
\* 100 + 10 before the clamp of line 341
C9_Witness ==
    /\ Analysed
    /\ caller = "eligible"
    /\ LET r == position_analysis[1]
           b == r.fen.board
       IN  /\ r.is_player_turn
           /\ pawn_shield(b, "WHITE", king(b, "WHITE")) = 2
           /\ ~is_check(b, r.fen.turn)
           /\ attackers(b, "BLACK", king(b, "WHITE")) = {}
           /\ r.king_safety_score = 100
           /\ r.criticality_score > 0

\* C10: for every position the pipeline analyses, of a WHITE and of a BLACK
\* subject player, material_balance is the summed point values of the subject
\* player's pieces minus those of the opponent's pieces.
C10_Original ==
    (Analysed /\ Piped) =>
        position_analysis[1].material_balance =
            MaterialOf(position_analysis[1].fen.board, game.player_color)
            - MaterialOf(position_analysis[1].fen.board, Other(game.player_color))

\* the played move and the best move of the analysed call are both given
BothMoves ==
    /\ ~Falsy(position_analysis[1].played_move)
    /\ position_analysis[1].best_move # <<>>

SameMove == lower(position_analysis[1].played_move[1]) = lower(position_analysis[1].best_move)

\* the played-move string denotes a legal move of the analysed position
DenotesLegalMove ==
    LET r == from_uci(position_analysis[1].played_move[1])
    IN  /\ r # ParseError
        /\ r # NullOrDrop
        /\ is_legal(position_analysis[1].fen.board, position_analysis[1].fen.turn, r.move)

\* C11: a played-move string that differs from the engine's best move and
\* denotes no legal move of the position, parsable or not, is scored exactly
\* 0.0 (and scoring returns instead of raising).
C11_Original ==
    (Analysed /\ BothMoves /\ ~SameMove /\ ~DenotesLegalMove) =>
        position_analysis[1].move_quality_score = 0

\* C12: move quality is exactly 0.5 whenever the played move or the best move
\* is missing or empty, also when both are; it is exactly 1.0 whenever both
\* are given and equal ignoring letter case.
C12_MissingAndBest ==
    Analysed =>
        /\ ~BothMoves => position_analysis[1].move_quality_score = 5
        /\ (BothMoves /\ SameMove) => position_analysis[1].move_quality_score = 10

\* "E1D1" played, "e1d1" best: equal only when the case is ignored
C12_Witness ==
    /\ Analysed
    /\ BothMoves
    /\ SameMove
    /\ position_analysis[1].played_move[1] # position_analysis[1].best_move
    /\ position_analysis[1].move_quality_score = 10

----------------------------------------------------------------------------
(* Properties of the replay and the sampling *)

Collected == run_pc \in {"loop", "returned"} /\ position_analyses = <<>> /\ loop_index <= 1

\* the positions that the filter of line 153 collected (the fallback stores
\* no played_move)
EligibleEntries == {k \in 1..Len(positions) : positions[k].played_move # <<>>}

\* the plies of the game at or after full move 10
LatePlies == {ply \in 1..pgn_game.n_plies : FullMoveOf(ply) >= FirstFullMove}

\* no position at or after full move 10 has the subject player to move
NoSubjectTurn ==
    \A ply \in LatePlies : ~IsPlayerTurn(TurnAfter(ply), pgn_game.player_color)

\* C13: a game of fewer than 20 half-moves yields no eligible position, for a
\* WHITE and for a BLACK subject player.
C13_Original ==
    (Collected /\ pgn_game.player_color \in Colors /\ pgn_game.n_plies < 20) =>
        EligibleEntries = {}

C15_Sampling ==
    Collected =>
        LET n == Len(positions)
            s == n \div MaxAnalyzed
        IN  /\ Len(positions_to_analyze) <= MaxAnalyzed
            /\ n <= MaxAnalyzed => positions_to_analyze = positions
            /\ n > MaxAnalyzed =>
                   /\ Len(positions_to_analyze) = MaxAnalyzed
                   /\ \A k \in 1..MaxAnalyzed :
                          positions_to_analyze[k] = positions[(k - 1) * s + 1]

\* 21 eligible positions: stride 2 gives 11 positions, cut to 10
C15_Witness ==
    /\ Collected
    /\ Len(positions) = 21
    /\ Len(positions_to_analyze) = 10
    /\ positions_to_analyze[10] = positions[19]

\* the king safety of the claim for the king of colour c: 100, minus 30 when
\* that king is in check, minus 10 per attacker, plus 5 per shield pawn
SubjectKingSafety(b, c) ==
    IF king(b, c) = NoSquare THEN 0
    ELSE Max(0, Min(100,
             100 - (IF is_attacked_by(b, Other(c), king(b, c)) THEN 30 ELSE 0)
                 - 10 * Cardinality(attackers(b, Other(c), king(b, c)))
                 + 5 * pawn_shield(b, c, king(b, c))))

\* C22: for every position the pipeline analyses, king_safety_score is the
\* clamped sum of the claim computed for the subject player's king.
C22_Original ==
    (Analysed /\ Piped) =>
        position_analysis[1].king_safety_score =
            SubjectKingSafety(position_analysis[1].fen.board, game.player_color)

----------------------------------------------------------------------------
(* Properties of the analysis loop and of the analyzer's output *)

RunReturned == run_pc = "returned" /\ Len(positions_to_analyze) > 0

\* round i of the loop called analyze_position and got a PositionAnalysis
AnalysedRound(i) == engine_log[i].kind = "return" /\ ScoreIsNumber(engine_log[i].answer)

AnalysedRounds == {i \in 1..Len(engine_log) : AnalysedRound(i)}

\* the loop round that produced position_analyses[k]
RoundOf(k) ==
    CHOOSE i \in AnalysedRounds : Cardinality({j \in AnalysedRounds : j <= i}) = k

\* C16: the loop handles the sampled positions in game order, and the
\* previous_eval handed to the analysis of a position is the eval score of
\* the most recent earlier sampled position that was analysed, None for the
\* first analysed position.
C16_PreviousEval ==
    run_pc \in {"loop", "returned"} =>
        /\ Len(engine_log) <= Len(positions_to_analyze)
        /\ Len(position_analyses) = Cardinality(AnalysedRounds)
        /\ \A k \in 1..Len(position_analyses) :
               /\ position_analyses[k].fen = positions_to_analyze[RoundOf(k)].fen
               /\ position_analyses[k].eval_score = engine_log[RoundOf(k)].answer.score
        /\ \A i \in AnalysedRounds :
               LET earlier == {j \in AnalysedRounds : j < i}
               IN  engine_log[i].previous_eval =
                       IF earlier = {} THEN NoEval
                       ELSE Known(engine_log[SetMax(earlier)].answer.score)
        /\ \A k \in 1..Len(position_analyses) :
               position_analyses[k].criticality_score =
                   calculate_criticality_score(
                       position_analyses[k].eval_score,
                       engine_log[RoundOf(k)].previous_eval,
                       position_analyses[k].material_balance,
                       position_analyses[k].tactical_patterns,
                       position_analyses[k].king_safety_score,
                       position_analyses[k].move_quality_score,
                       position_analyses[k].threats)

\* the first position scores 3.5, the second is skipped, the third gets the
\* neutral answer and is analysed against 3.5
C16_Witness ==
    /\ Len(engine_log) >= 3
    /\ AnalysedRound(1)
    /\ engine_log[1].answer.score = 35
    /\ ~AnalysedRound(2)
    /\ AnalysedRound(3)
    /\ engine_log[3].previous_eval = Known(35)
    /\ engine_log[3].answer = NeutralAnswer
    /\ position_analyses[2].reason_code = "TRANSITION"

\* the engine call of round i failed (the provider fell back to the neutral
\* answer) or timed out
EngineFailed(i) ==
    engine_log[i].kind = "TimeoutError" \/ engine_log[i].answer = NeutralAnswer

\* C17: every sampled position whose engine call fails or times out gets a
\* PositionAnalysis on the neutral fallback evaluation (score 0.0, no best
\* move, no threats, depth 0).
C17_Original ==
    \A i \in 1..Len(engine_log) :
        EngineFailed(i) =>
            \E k \in 1..Len(position_analyses) :
                /\ position_analyses[k].fen = positions_to_analyze[i].fen
                /\ position_analyses[k].eval_score = 0
                /\ position_analyses[k].best_move = <<>>
                /\ position_analyses[k].threats = <<>>
                /\ position_analyses[k].depth = 0

\* C18: a failure, timeout or exception in one round never aborts the batch:
\* every sampled position has its round, and every position whose round did
\* not fail is analysed and handed to the selection.
C18_BatchGoesOn ==
    RunReturned =>
        /\ Len(engine_log) = Len(positions_to_analyze)
        /\ \A i \in 1..Len(positions_to_analyze) :
               AnalysedRound(i) =>
                   \E k \in 1..Len(position_analyses) :
                       position_analyses[k].fen = positions_to_analyze[i].fen
        /\ analyzer_output = <<run_output(position_analyses, positions, pgn_game)>>

\* a timeout in the first round and an exception in the third, analyses in
\* the rounds before, between and after
C18_Witness ==
    /\ RunReturned
    /\ Len(engine_log) = 5
    /\ engine_log[1].kind = "TimeoutError"
    /\ AnalysedRound(2)
    /\ engine_log[3].kind = "return" /\ ~ScoreIsNumber(engine_log[3].answer)
    /\ AnalysedRound(4)
    /\ AnalysedRound(5)
    /\ Len(position_analyses) = 3

\* C20: every key position of the analyzer's output carries one of the
\* reason codes OPP_INTENT, THREAT_AWARENESS, TRANSITION, on the normal path
\* and on the fallback paths.
C20_ReasonCodes ==
    analyzer_output # <<>> =>
        \A k \in 1..Len(analyzer_output[1].key_positions) :
            analyzer_output[1].key_positions[k].reason_code
                \in {"OPP_INTENT", "THREAT_AWARENESS", "TRANSITION"}

\* a normal output with the three codes
C20_Witness ==
    /\ RunReturned
    /\ Len(position_analyses) >= 3
    /\ {analyzer_output[1].key_positions[k].reason_code :
           k \in 1..Len(analyzer_output[1].key_positions)}
       = {"OPP_INTENT", "THREAT_AWARENESS", "TRANSITION"}

\* the fallback output when no round produced an analysis
C20_FallbackReached ==
    /\ RunReturned
    /\ Len(position_analyses) = 0
    /\ Len(analyzer_output[1].key_positions) = 3

\* the side that made the move of a ply
MoverOf(ply) == IF ply % 2 = 1 THEN "WHITE" ELSE "BLACK"

\* the numbers of the moves the subject player made in the game
SubjectMoveNumbers ==
    {FullMoveOf(ply) : ply \in {q \in 1..pgn_game.n_plies :
                                   MoverOf(q) = pgn_game.player_color}}

\* a game with no position at or after full move 10
EndsBeforeFirstFullMove ==
    \A ply \in 1..pgn_game.n_plies : FullMoveOf(ply) < FirstFullMove

\* _run_analyzer has gone through the replay and the sampling
Replayed == run_pc \in {"loop", "returned"}

----------------------------------------------------------------------------
(* Properties of the pipeline *)

\* the number of key positions of an analyzer output
KeyPositionCount(output) ==
    IF "key_positions" \in DOMAIN output THEN Len(output.key_positions) ELSE 0

\* C19: every set of key positions persisted by one call of the pipeline has
\* between 1 and 5 entries: an output with 0 or more than 5 key positions is
\* rejected by validate_analyzer_output with no KeyPosition and no Question
\* flushed or committed, and rows are only flushed or committed for an output
\* of 1 to 5 key positions, never more rows than the output has.
C19_KeyPositionCount ==
    /\ \A r \in 1..Len(pipeline_log) :
           LET run == pipeline_log[r]
               n == KeyPositionCount(run.output)
           IN  /\ ~(1 <= n /\ n <= 5) =>
                      /\ run.outcome = "ValueError"
                      /\ run.key_positions = <<>>
                      /\ run.questions = {}
               /\ run.outcome = "committed" =>
                      /\ Len(run.key_positions) = n
                      /\ 1 <= n /\ n <= 5
               /\ Len(run.key_positions) <= n
    /\ pipeline_pc = "persist" =>
           /\ 1 <= KeyPositionCount(pipeline_output[1])
           /\ KeyPositionCount(pipeline_output[1]) <= 5
           /\ Len(session_key_positions) <= KeyPositionCount(pipeline_output[1])
    /\ pipeline_pc # "persist" => session_key_positions = <<>> /\ session_questions = {}
    /\ Len(db_key_positions) <= 5
    /\ pipeline_pc = "done" <=> db_key_positions # <<>>
    /\ db_questions # {} => db_key_positions # <<>>

\* an output of six key positions was rejected with nothing persisted, and the
\* second call committed five key positions with their questions
C19_Witness ==
    /\ pipeline_pc = "done"
    /\ Len(pipeline_log) = 2
    /\ KeyPositionCount(pipeline_log[1].output) = 6
    /\ pipeline_log[1].outcome = "ValueError"
    /\ pipeline_log[1].key_positions = <<>>
    /\ Len(db_key_positions) = 5
    /\ Cardinality(db_questions) = 5 * Len(categories)

\* an empty key_positions list was rejected with nothing persisted
C19_EmptyRejected ==
    /\ Len(pipeline_log) >= 1
    /\ "key_positions" \in DOMAIN pipeline_log[1].output
    /\ KeyPositionCount(pipeline_log[1].output) = 0
    /\ pipeline_log[1].outcome = "ValueError"
    /\ pipeline_log[1].key_positions = <<>>

\* the rows are those of the first Len(rows) key positions of the output, in
\* their order, numbered from 0
InSelectionOrder(rows, output) ==
    /\ Len(rows) <= Len(output.key_positions)
    /\ \A k \in 1..Len(rows) :
           /\ rows[k].order = k - 1
           /\ rows[k].fen = output.key_positions[k].fen
           /\ rows[k].reason_code = output.key_positions[k].reason_code
           /\ rows[k].engine_truth = output.key_positions[k].engine_truth

\* C24: the key positions of one run are persisted in selection order, the
\* i-th (from 0) with order = i: the orders flushed so far are 0..k-1 and the
\* committed orders are exactly 0..n-1, with no gap and no repeat.
C24_Order ==
    /\ pipeline_pc = "persist" =>
           InSelectionOrder(session_key_positions, pipeline_output[1])
    /\ pipeline_pc = "done" =>
           /\ InSelectionOrder(db_key_positions, pipeline_output[1])
           /\ Len(db_key_positions) = Len(pipeline_output[1].key_positions)
           /\ {db_key_positions[k].order : k \in 1..Len(db_key_positions)} =
                  0..(Len(db_key_positions) - 1)
           /\ \A j, k \in 1..Len(db_key_positions) :
                  db_key_positions[j].order = db_key_positions[k].order => j = k
    /\ \A r \in 1..Len(pipeline_log) :
           pipeline_log[r].outcome # "ValueError" =>
               InSelectionOrder(pipeline_log[r].key_positions, pipeline_log[r].output)

\* four key positions committed with the orders 0, 1, 2, 3
C24_Witness ==
    /\ pipeline_pc = "done"
    /\ Len(db_key_positions) = 4
    /\ \A k \in 1..4 : db_key_positions[k].order = k - 1 /\ db_key_positions[k].fen = k

----------------------------------------------------------------------------
(* Properties of the engine provider *)

EngineCalled == provider_result # <<>>

\* stockfish.online gave no answer in the attempts of the last call
StockfishFailed ==
    LET bh == provider_call[1].behaviour
    IN  ~(bh.stockfish[1] = "ok" \/ (bh.stockfish[1] = "timeout" /\ bh.stockfish[2] = "ok"))

\* chess-api.com gave no answer in the last call: no version answered the
\* probe when none was cached, or the request failed or timed out
ChessApiFailed ==
    LET bh == provider_call[1].behaviour
    IN  \/ provider_call[1].url = None /\ bh.probe_v2 # "ok" /\ bh.probe_v1 # "ok"
        \/ bh.chess_api \in {"error", "timeout"}

EveryEndpointFailed == StockfishFailed /\ ChessApiFailed

\* C23: a call with fallback_on_error=True never raises; when every endpoint
\* fails, after at most 2 attempts on stockfish.online, it returns exactly the
\* neutral fallback (score 0.0, no best move, no threats, depth 0), and with
\* fallback_on_error=False it raises.
C23_Unavailable ==
    EngineCalled =>
        /\ provider_call[1].fallback_on_error => provider_result[1].kind = "return"
        /\ provider_call[1].attempts <= 2
        /\ (EveryEndpointFailed /\ provider_call[1].fallback_on_error) =>
               /\ provider_result[1].kind = "return"
               /\ provider_result[1].answer =
                      [score |-> 0, best_move |-> <<>>, threats |-> <<>>, depth |-> 0]
        /\ (EveryEndpointFailed /\ ~provider_call[1].fallback_on_error) =>
               provider_result[1].kind = "raise"
        /\ ~EveryEndpointFailed => provider_result[1].kind = "return"

\* the second call of a provider whose cached chess-api.com URL stopped
\* working, after two timeouts of stockfish.online: the neutral fallback
C23_Witness ==
    /\ EngineCalled
    /\ provider_calls = 2
    /\ provider_call[1].url = "v2"
    /\ provider_call[1].attempts = 2
    /\ provider_call[1].fallback_on_error
    /\ EveryEndpointFailed
    /\ provider_result[1].answer = NeutralAnswer
    /\ provider_url = None

\* with fallback_on_error=False the call raised
C23_Raised ==
    /\ EngineCalled
    /\ ~provider_call[1].fallback_on_error
    /\ EveryEndpointFailed
    /\ provider_result[1].kind = "raise"

----------------------------------------------------------------------------
(* Properties of the submission *)

Submitted == sub_result # <<>>

\* the rows the last request met
Before == sub_request[1].db

\* the approval requirement of the last request was met: none was needed, or
\* an approved, unused, unexpired approval of the tier existed
ApprovalMet ==
    \/ sub_request[1].tier = "STANDARD" /\ Before.game.state # "COMPLETED"
    \/ valid_approvals(Before, sub_request[1].tier) # {}

\* C25: submit_game on an EDITABLE game whose approval requirement is met
\* succeeds: the state is SUBMITTED, the stored pgn is the submitted pgn and
\* every annotation is frozen.
C25_Original ==
    (Submitted /\ Before.game.state = "EDITABLE" /\ ApprovalMet) =>
        /\ sub_result[1].kind = "return"
        /\ sub_db.game.state = "SUBMITTED"
        /\ sub_db.game.pgn = sub_request[1].pgn
        /\ \A a \in DOMAIN sub_db.annotations : sub_db.annotations[a].frozen

\* C26: submit_game on a game that is not EDITABLE changes nothing: a
\* SUBMITTED game gets the already-submitted message, a COACHING or COMPLETED
\* game the invalid-transition error, and state, pgn, annotations and
\* approvals stay as they were.
C26_NotEditable ==
    (Submitted /\ Before.game.state # "EDITABLE") =>
        /\ sub_db = Before
        /\ Before.game.state = "SUBMITTED" =>
               /\ sub_result[1].kind = "return"
               /\ sub_result[1].message = "Game already submitted"
        /\ Before.game.state \in {"COACHING", "COMPLETED"} =>
               /\ sub_result[1].kind = "ValueError"
               /\ sub_result[1].message = "Invalid transition"

\* an ADVANCED submit with a valid approval on a COACHING game with an
\* unfrozen annotation: invalid transition, everything as before
C26_Witness ==
    /\ Submitted
    /\ Before.game.state = "COACHING"
    /\ sub_request[1].tier = "ADVANCED"
    /\ valid_approvals(Before, "ADVANCED") # {}
    /\ \E a \in DOMAIN Before.annotations : ~Before.annotations[a].frozen
    /\ Before.game.pgn # sub_request[1].pgn
    /\ sub_result[1].kind = "ValueError"
    /\ sub_result[1].message = "Invalid transition"
    /\ sub_db = Before

\* a submit of a SUBMITTED game: the already-submitted message
C26_AlreadySubmitted ==
    /\ Submitted
    /\ Before.game.state = "SUBMITTED"
    /\ sub_result[1].message = "Game already submitted"

\* C27: a submit with a tier other than STANDARD goes through with an
\* approved, unused, unexpired approval of the game and tier, which it marks
\* used; without one it fails with the approval-required error and the game
\* stays EDITABLE.
C27_Original ==
    (Submitted /\ Before.game.state = "EDITABLE" /\ sub_request[1].tier # "STANDARD") =>
        IF valid_approvals(Before, sub_request[1].tier) # {}
        THEN /\ sub_result[1].kind = "return"
             /\ sub_db.game.state = "SUBMITTED"
             /\ \E a \in valid_approvals(Before, sub_request[1].tier) :
                    sub_db.approvals[a].used
        ELSE /\ sub_result[1].kind = "ValueError"
             /\ sub_result[1].message = "Parent approval required"
             /\ sub_db.game.state = "EDITABLE"

\* C28: a STANDARD submit on a game with a previous COMPLETED run fails with
\* the approval-required error when no valid approval exists, and is accepted
\* when one exists.
C28_Original ==
    (Submitted /\ Before.game.state = "COMPLETED" /\ sub_request[1].tier = "STANDARD") =>
        IF valid_approvals(Before, "STANDARD") = {}
        THEN /\ sub_result[1].kind = "ValueError"
             /\ sub_result[1].message = "Parent approval required"
        ELSE sub_result[1].kind = "return"

----------------------------------------------------------------------------
(* Properties of answer_question *)

\* C29: once a request has recorded an answer (of any content, the empty one
\* included) or a skip for a question, every later request on that question
\* is rejected with a conflict and leaves answer_text and skipped unchanged.
C29_Original ==
    (q_request # <<>> /\ q_request[1].question_id \in q_request[1].recorded) =>
        /\ q_result[1] = "409 Question already answered"
        /\ questions[q_request[1].question_id] =
               q_request[1].questions[q_request[1].question_id]

----------------------------------------------------------------------------
(* Properties of the pipeline lock *)

\* C30: over any interleaving of the run_pipeline calls of one game, at most
\* one execution of _execute_pipeline is in progress at any time.
C30_Original == Cardinality(InExecutePipeline) <= 1

----------------------------------------------------------------------------
(* Properties of the completion of a game *)

\* the questions of the game that are neither answered nor skipped
Unanswered == {q \in DOMAIN questions : questions[q].answer_text = <<>> /\ ~questions[q].skipped}

\* C31: a game is COMPLETED only when none of its questions is left both
\* unanswered and unskipped: a request that records an answer or a skip sets
\* COMPLETED exactly when no such question remains afterwards and otherwise
\* leaves the state as it was, and a request that records nothing leaves
\* the state as it was.
C31_Completion ==
    /\ q_game_state = "COMPLETED" => Unanswered = {}
    /\ q_request # <<>> =>
           IF q_result[1] = "Answer recorded"
           THEN q_game_state = IF Unanswered = {} THEN "COMPLETED" ELSE q_request[1].state
           ELSE q_game_state = q_request[1].state /\ questions = q_request[1].questions

\* the request that records the last open question completes a COACHING game
C31_Witness ==
    /\ q_request # <<>>
    /\ q_result[1] = "Answer recorded"
    /\ q_request[1].state = "COACHING"
    /\ Cardinality({q \in DOMAIN questions :
                       q_request[1].questions[q].answer_text = <<>>
                       /\ ~q_request[1].questions[q].skipped}) = 1
    /\ q_game_state = "COMPLETED"

\* C32: run_pipeline never propagates an exception to its caller, whatever
\* the outcome of the lock and of _execute_pipeline, for a game that exists
\* or not; and a game that was SUBMITTED is COACHING before the lock is
\* attempted.
C32_Original ==
    /\ \A t \in DOMAIN task_pc : task_pc[t] # "raised"
    /\ (\E t \in DOMAIN task_pc : task_pc[t] # "queued") => lock_game_state # "SUBMITTED"

----------------------------------------------------------------------------
(* Properties of the scores of one position *)

\* the position of the scenario: eval 1.5, no previous eval, no pattern, no
\* threat, move quality 1.0, king safety at least 50, |material| at most 2
QuietAdvantage ==
    /\ score_pc = "done"
    /\ eval_score = 15
    /\ previous_eval = NoEval
    /\ tactical_patterns = {}
    /\ threats = <<>>
    /\ move_quality_score = 10
    /\ king_safety_score >= 50
    /\ Abs(material_balance) <= 20

\* C33: a position with eval score 1.5, no previous eval, no tactical
\* pattern, no threat and move quality 1.0, with king safety >= 50 and
\* |material| <= 2, has criticality exactly 2.5, every term but the
\* eval-magnitude term being 0, and reason code OPP_INTENT.
C33_QuietAdvantage ==
    QuietAdvantage =>
        /\ 2 * criticality_score = Points(5)
        /\ SwingContribution(eval_score, previous_eval) = 0
        /\ PatternContribution(tactical_patterns) = 0
        /\ ThreatContribution(threats) = 0
        /\ KingContribution(king_safety_score) = 0
        /\ QualityContribution(move_quality_score) = 0
        /\ MaterialContribution(material_balance) = 0
        /\ reason_code = "OPP_INTENT"

C33_Witness == QuietAdvantage /\ reason_code = "OPP_INTENT" /\ criticality_score = 175

----------------------------------------------------------------------------
(* Properties of repeated selection *)

\* the returned list, as PositionAnalysis objects
SelectedAnalyses == [i \in 1..Len(selected) |-> analyses[selected[i]]]

----------------------------------------------------------------------------
(* Properties of the two passes of select_key_positions *)

\* C38: the fill pass never contributes: for every input list and all
\* min_positions, max_positions >= 0 the returned list is the list accepted
\* by the greedy pass, truncated to max_positions.
C38_FillPassIdle ==
    sel_pc \in {"done", "again"} => selected = Truncate(first_pass, max_positions)

\* a call in which the greedy pass accepted a position within three moves of
\* an accepted one, because fewer than min_positions were accepted
C38_Witness ==
    /\ sel_pc = "done"
    /\ Len(selected) >= 2
    /\ Len(analyses) > min_positions
    /\ \E i, j \in 1..Len(selected) :
           /\ i < j
           /\ Abs(analyses[selected[i]].move_number
                  - analyses[selected[j]].move_number) < MinSpacing

----------------------------------------------------------------------------
(* Properties of the order of the selection *)

\* the place of input element x in the stable descending order of the input:
\* after every element of higher score and every earlier element of the same
\* score
StablePlace(x) ==
    1 + Cardinality({y \in 1..Len(analyses) :
            \/ analyses[y].criticality_score > analyses[x].criticality_score
            \/ /\ analyses[y].criticality_score = analyses[x].criticality_score
               /\ y < x})

\* C39: the output of select_key_positions is a sub-sequence of the stable
\* descending ranking of the input: every output element is an input
\* element, none appears twice, the criticality scores do not increase along
\* the output, and the first output element has the highest score of the
\* input.
C39_SubSequence ==
    sel_pc \in {"done", "again"} =>
        /\ \A i \in 1..Len(selected) : selected[i] \in 1..Len(analyses)
        /\ \A i, j \in 1..Len(selected) :
               i < j =>
                   /\ selected[i] # selected[j]
                   /\ StablePlace(selected[i]) < StablePlace(selected[j])
                   /\ analyses[selected[i]].criticality_score
                          >= analyses[selected[j]].criticality_score
        /\ selected # <<>> =>
               \A y \in 1..Len(analyses) :
                   analyses[selected[1]].criticality_score >= analyses[y].criticality_score

\* a selection of two positions that skips a position of the ranking, from
\* a list that is not in ranking order
C39_Witness ==
    /\ sel_pc = "done"
    /\ Len(selected) = 2
    /\ \E y \in 1..Len(analyses) :
           /\ y \notin Range(selected)
           /\ StablePlace(y) < StablePlace(selected[2])
    /\ \E x, y \in 1..Len(analyses) :
           x < y /\ analyses[x].criticality_score < analyses[y].criticality_score

----------------------------------------------------------------------------
(* Properties of the default reason code *)

\* a scored position on which the tests of lines 469-484 all fail: no
\* tactical pattern, no threat, no eval swing above 0.5, |eval| at most 1.0
PastPriorityFour ==
    /\ score_pc = "done"
    /\ tactical_patterns = {}
    /\ threats = <<>>
    /\ previous_eval # NoEval => EvalChange(eval_score, previous_eval) <= 5
    /\ Abs(eval_score) <= 10

\* C40: on a position with no tactical pattern, no threat, no eval swing
\* above 0.5 and |eval| <= 1.0, the default THREAT_AWARENESS is given only
\* for a move quality of 0.6 or 1.0; with the unknown quality 0.5 the reason
\* code is OPP_INTENT and the criticality score holds the move-quality term
\* (0.7 - 0.5) / 0.7 * 10.
C40_UnknownQuality ==
    PastPriorityFour =>
        /\ reason_code = "THREAT_AWARENESS" => move_quality_score \in {6, 10}
        /\ move_quality_score = 5 =>
               /\ reason_code = "OPP_INTENT"
               /\ 7 * QualityContribution(5) = 2 * Points(10)
               /\ criticality_score =
                      KingContribution(king_safety_score)
                      + MaterialContribution(material_balance) + 200

\* a quiet position of unknown move quality, and nothing else to score
C40_Witness ==
    /\ PastPriorityFour
    /\ move_quality_score = 5
    /\ reason_code = "OPP_INTENT"
    /\ criticality_score = 200

----------------------------------------------------------------------------
(* Properties of the life of a game *)

\* the stages of a game
Stage(state) ==
    CASE state = "EDITABLE" -> 0
      [] state = "SUBMITTED" -> 1
      [] state = "COACHING" -> 2
      [] state = "COMPLETED" -> 3

\* C35: over any interleaving of submit requests, pipeline runs and answers
\* the state of a game never goes back to an earlier stage of EDITABLE,
\* SUBMITTED, COACHING, COMPLETED, and a COMPLETED game stays COMPLETED.
C35_Original == [][Stage(lock_game_state') >= Stage(lock_game_state)]_vars

\* the key positions of the game: the rows of run t have the orders
\* 0 .. task_persisted[t] - 1
KeyPositionRows == {<<t, i>> : t \in Tasks, i \in 0..MaxPersist} \cap
                   {row \in Tasks \X (0..MaxPersist) : row[2] < task_persisted[row[1]]}

\* C36: over any interleaving of submit requests and of the runs they
\* schedule, at most one run persists key positions, so the game never has
\* more than 5 key positions nor two key positions of the same order.
C36_Original ==
    /\ Cardinality({t \in DOMAIN task_persisted : task_persisted[t] > 0}) <= 1
    /\ Cardinality(KeyPositionRows) <= 5
    /\ \A r1, r2 \in KeyPositionRows : r1[2] = r2[2] => r1 = r2

\* C37: every submitted game eventually reaches COMPLETED, when every run
\* terminates and the user answers or skips every question; a game does not
\* stay in COACHING forever with no question left to answer.
C37_Original == (lock_game_state = "SUBMITTED") ~> (lock_game_state = "COMPLETED")

=============================================================================
